---- MODULE Spec2Model ----
(***************************************************************************)
(* Model of the alliance synchronisation subsystem of screeps-rust:        *)
(*   src/js_src/crypt.js            the word cipher and its text codec     *)
(*   src/js_src/allianceManager.js  ForeignSegmentProvider,                *)
(*                                  AllianceDataSync, AllianceManager      *)
(*                                                                         *)
(* The specifications of the module:                                       *)
(*   SpecCipher   the word cipher applied to bounded inputs                *)
(*   SpecText     encrypt / decrypt of crypt.js applied to bounded texts   *)
(*   SpecChannel  the ForeignSegmentProvider API called in any order       *)
(*   Spec         AllianceManager.sync() invoked once per game tick        *)
(*   SpecFair     the same in a run without failures                       *)
(***************************************************************************)
EXTENDS Integers, Sequences, FiniteSets, TLC

VARIABLES
    \* ---- cipher harness (SpecCipher)
    cMsg, cKey, cV, cSum, cQ, cOut, cBack, cPc,
    cSums,      \* the values of sum in the rounds of encryptUint32Array, in order
    cDecSums,   \* the same for decryptUint32Array
    \* ---- text harness (SpecText): encrypt(s, k) and decrypt(s, k)
    tMsg, tEncKey, tDecKey, tSafe, tBack, tPc,
    \* ---- the program's objects
    sp,         \* ForeignSegmentProvider: requestedPlayerName, requestedSegmentId, dataRaw, data
    ds,         \* AllianceDataSync: keyData, nextSyncTime
    am,         \* AllianceManager: allies, syncDataAllies, syncDataIndex, nextDataSync, alliesData, myData
    \* ---- the host
    RawMemory,  \* foreignSegment, the active foreign request, own segments
    Game,       \* time, market.incomingTransactions, terminals
    \* ---- bookkeeping
    ev,         \* what the last call returned and did (history)
    pc          \* whose turn it is within a tick

textVars == <<tMsg, tEncKey, tDecKey, tSafe, tBack, tPc>>
cipherVars == <<cMsg, cKey, cV, cSum, cQ, cOut, cBack, cPc, cSums, cDecSums, textVars>>
progVars == <<sp, ds, am, RawMemory, Game, ev, pc>>
vars == <<cipherVars, progVars>>

(***************************************************************************)
(* 32-bit words.  TLC integers are 32-bit signed, so an unsigned 32-bit    *)
(* word w is kept as the pair <<w >>> 16, w & 0xffff>> of 16-bit halves    *)
(* and every operation is computed modulo 2^32 on the halves.              *)
(***************************************************************************)
RECURSIVE Pow2(_)
Pow2(s) == IF s = 0 THEN 1 ELSE 2 * Pow2(s - 1)

Half == Pow2(16)

RECURSIVE XorBits(_, _, _)
XorBits(a, b, n) ==
    IF n = 0 THEN 0
    ELSE (((a % 2) + (b % 2)) % 2) + 2 * XorBits(a \div 2, b \div 2, n - 1)

\* a ^ b
XorW(a, b) == <<XorBits(a[1], b[1], 16), XorBits(a[2], b[2], 16)>>

\* (a + b) mod 2^32
AddW(a, b) ==
    LET lo == a[2] + b[2]
        hi == a[1] + b[1] + (lo \div Half)
    IN  <<hi % Half, lo % Half>>

\* (a - b) mod 2^32
SubW(a, b) ==
    LET borrow == IF a[2] < b[2] THEN 1 ELSE 0
    IN  <<(a[1] - b[1] - borrow + Half) % Half, (a[2] - b[2] + Half) % Half>>

\* a >>> s, 0 < s < 16
ShrW(a, s) ==
    <<a[1] \div Pow2(s), (a[2] \div Pow2(s)) + (a[1] % Pow2(s)) * Pow2(16 - s)>>

\* a << s, 0 < s < 16
ShlW(a, s) ==
    <<((a[1] * Pow2(s)) % Half) + (a[2] \div Pow2(16 - s)), (a[2] * Pow2(s)) % Half>>

ZeroW == <<0, 0>>

\* const DELTA = 0x9E3779B9
DELTA == <<40503, 31161>>

\* p & 3 ^ e   (& binds tighter than ^), both operands below 4
KeyIndex(p, e) == XorBits(p % 4, e, 2)

\* sum >>> 2 & 3
RoundSelector(sum) == (sum[2] \div 4) % 4

\* mx(sum, y, z, p, e, k); k is 1-indexed here, k[i + 1] is the code's k[i]
mx(sum, y, z, p, e, k) ==
    XorW(AddW(XorW(ShrW(z, 5), ShlW(y, 2)), XorW(ShrW(y, 3), ShlW(z, 4))),
         AddW(XorW(sum, y), XorW(k[KeyIndex(p, e) + 1], z)))

\* Math.floor(16 + 52 / length); the empty array gives Infinity, which both
\* loops turn into zero rounds
\* the round count of the reference cipher
RoundsSix(length) == IF length = 0 THEN 0 ELSE 6 + (52 \div length)

Rounds(length) == IF length = 0 THEN 0 ELSE 16 + (52 \div length)

\* v is 1-indexed here: v[i + 1] is the code's v[i]
\* inner loop of encryptUint32Array for p .. n-1, then the last word
RECURSIVE EncWords(_, _, _, _, _)
EncWords(v, z, p, sum, k) ==
    LET n == Len(v) - 1
        e == RoundSelector(sum)
    IN  IF p < n
        THEN LET y  == v[p + 2]
                 nz == AddW(v[p + 1], mx(sum, y, z, p, e, k))
             IN  EncWords([v EXCEPT ![p + 1] = nz], nz, p + 1, sum, k)
        ELSE LET y  == v[1]
                 nz == AddW(v[n + 1], mx(sum, y, z, n, e, k))
             IN  [v EXCEPT ![n + 1] = nz]

\* inner loop of decryptUint32Array for p .. 1, then word 0
RECURSIVE DecWords(_, _, _, _, _)
DecWords(v, y, p, sum, k) ==
    LET n == Len(v) - 1
        e == RoundSelector(sum)
    IN  IF p > 0
        THEN LET z  == v[p]
                 ny == SubW(v[p + 1], mx(sum, y, z, p, e, k))
             IN  DecWords([v EXCEPT ![p + 1] = ny], ny, p - 1, sum, k)
        ELSE LET z  == v[n + 1]
                 ny == SubW(v[1], mx(sum, y, z, 0, e, k))
             IN  [v EXCEPT ![1] = ny]

\* (q * DELTA) & 0xffffffff
RECURSIVE MulDelta(_)
\* one round short
RECURSIVE MulDeltaShort(_)
MulDeltaShort(q) == IF q <= 1 THEN ZeroW ELSE AddW(MulDeltaShort(q - 1), DELTA)

MulDelta(q) == IF q = 0 THEN ZeroW ELSE AddW(MulDelta(q - 1), DELTA)

(***************************************************************************)
(* Cipher harness: a message and a key are drawn from bounded sets, then   *)
(* encrypted and decrypted; each loop iteration of the two functions is    *)
(* one step, so the running sum and the remaining rounds are state.        *)
(***************************************************************************)
MaxWords == 3

WordPool == {<<0, 0>>, <<65535, 65535>>, <<4660, 43981>>}

KeyPool == { <<ZeroW, ZeroW, ZeroW, ZeroW>>,
             <<(<<1, 2>>), (<<65535, 65535>>), (<<43690, 21845>>), (<<4660, 22136>>)>> }

RECURSIVE SeqsOfLen(_, _)
SeqsOfLen(S, n) ==
    IF n = 0 THEN {<<>>}
    ELSE {Append(s, x) : s \in SeqsOfLen(S, n - 1), x \in S}

WordMessages == UNION {SeqsOfLen(WordPool, n) : n \in 1..MaxWords}

\* encryptUint32Array(v, k), lines 8-11: the loop is set up
encryptUint32Array ==
    /\ cPc = "input"
    /\ cV' = cMsg
    /\ cSum' = ZeroW
    /\ cQ' = Rounds(Len(cMsg))
    /\ cPc' = "enc"
    /\ cSums' = <<>>
    /\ UNCHANGED <<cMsg, cKey, cOut, cBack, cDecSums, textVars>>
    /\ UNCHANGED progVars

\* one iteration of the q loop of encryptUint32Array, lines 12-21
EncryptRound ==
    /\ cPc = "enc"
    /\ cQ > 0
    /\ LET sum == AddW(cSum, DELTA)
       IN  /\ cSum' = sum
           /\ cSums' = Append(cSums, sum)
           /\ cV' = EncWords(cV, cV[Len(cV)], 0, sum, cKey)
    /\ cQ' = cQ - 1
    /\ UNCHANGED <<cMsg, cKey, cOut, cBack, cPc, cDecSums, textVars>>
    /\ UNCHANGED progVars

\* the q loop ends (q > 0 fails) and v is returned
EncryptReturn ==
    /\ cPc = "enc"
    /\ cQ <= 0
    /\ cOut' = cV
    /\ cPc' = "encrypted"
    /\ UNCHANGED <<cMsg, cKey, cV, cSum, cQ, cBack, cSums, cDecSums, textVars>>
    /\ UNCHANGED progVars

\* decryptUint32Array(v, k), lines 26-30: the loop is set up
decryptUint32Array ==
    /\ cPc = "encrypted"
    /\ cV' = cOut
    /\ cQ' = Rounds(Len(cOut))
    /\ cSum' = MulDelta(Rounds(Len(cOut)))
    /\ cPc' = "dec"
    /\ cDecSums' = <<>>
    /\ UNCHANGED <<cMsg, cKey, cOut, cBack, cSums, textVars>>
    /\ UNCHANGED progVars

\* one iteration of the sum loop of decryptUint32Array, lines 30-38
DecryptRound ==
    /\ cPc = "dec"
    /\ cSum # ZeroW
    /\ cV' = DecWords(cV, cV[1], Len(cV) - 1, cSum, cKey)
    /\ cSum' = SubW(cSum, DELTA)
    /\ cDecSums' = Append(cDecSums, cSum)
    /\ UNCHANGED <<cMsg, cKey, cQ, cOut, cBack, cPc, cSums, textVars>>
    /\ UNCHANGED progVars

\* the sum loop ends (sum !== 0 fails) and v is returned
DecryptReturn ==
    /\ cPc = "dec"
    /\ cSum = ZeroW
    /\ cBack' = cV
    /\ cPc' = "decrypted"
    /\ UNCHANGED <<cMsg, cKey, cV, cSum, cQ, cOut, cSums, cDecSums, textVars>>
    /\ UNCHANGED progVars


(***************************************************************************)
(* JavaScript values.  Every value that flows through a return slot is a   *)
(* record with a tag t, so that values of different kinds can be compared. *)
(* Fields the code only tests for truthiness (a key, a room name, a tick)  *)
(* hold "" or 0 for undefined / null.                                      *)
(***************************************************************************)
Undef == [t |-> "undefined"]

\* const NEXT_TICK = Symbol('NEXT_TICK')
NEXT_TICK == [t |-> "symbol", s |-> "NEXT_TICK"]

\* const ERR_DECRYPTION_FAILED = -1
ERR_DECRYPTION_FAILED == [t |-> "number", v |-> -1]

\* const ERR_JSON_PARSE_FAILED = -2
ERR_JSON_PARSE_FAILED == [t |-> "number", v |-> -2]

\* A string held in a segment is either plain text (key = "") or the
\* ciphertext encrypt(text, key).  Its text is "" (Empty), the JSON text of
\* an object (Json), or text that starts with '{' and is no JSON (BadJson).
Str(key, text) == [t |-> "string", key |-> key, text |-> text]
Empty == [j |-> "empty"]
Json(o) == [j |-> "json", o |-> o]
BadJson == [j |-> "badjson"]

EmptyString == Str("", Empty)

Obj(o) == [t |-> "object", o |-> o]

\* {}
EmptyObject == Obj(<<>>)

Arr(x) == [t |-> "array", a |-> x]

\* !v is false
Truthy(v) == v # Undef /\ v # EmptyString

\* Object.keys(v).length: a number has no own keys
ObjectKeysLength(v) == IF v.t = "object" THEN Cardinality(DOMAIN v.o) ELSE 0

\* JSON.stringify(data): undefined gives undefined, and a property whose value is
\* undefined is left out
JSONstringify(v) ==
    IF v = Undef THEN Undef
    ELSE Str("", Json([f \in {g \in DOMAIN v.o : v.o[g] # Undef} |-> v.o[f]]))

\* JSON.parse(s) returns (does not throw)
JSONparses(s) == s.key = "" /\ s.text.j = "json"

JSONparse(s) == Obj(s.text.o)

\* encrypt(s, k) of crypt.js on a 64-hex-digit key: the text signed with the key's
\* upper half and enciphered with its lower half
encrypt(s, k) == Str(k, s.text)

\* decrypt(s, k) of crypt.js on a 64-hex-digit key: the text when s was encrypted
\* with k, and '' when checkSign finds another tag
decrypt(s, k) == IF s.key = k THEN Str("", s.text) ELSE EmptyString

\* s.charAt(0) !== '{'
StartsWithBrace(s) == s.text.j \in {"json", "badjson"}

(***************************************************************************)
(* Configuration: ALLIANCE_OPTIONS and the literals of the protocol.       *)
(***************************************************************************)
\* ALLIANCE_OPTIONS.interval
interval == 20
\* ALLIANCE_OPTIONS.sync.interval
syncInterval == 100
keySegmentId == 65
segmentId == 66
dataSegmentId == 67
\* Game.time >= this.keyData.expire - 1000
KeyRequestWindow == 1000
\* Game.time > transaction.time + 1000
TransactionMaxAge == 1000
\* if (i >= 30) break
TransactionScanLimit == 30
\* transaction.amount === 3, terminal.send(RESOURCE_ENERGY, 3, ...)
KeyRequestAmount == 3
\* terminal.store.energy >= 10
MinTerminalEnergy == 10
\* transaction.description.length === 66 / === 64
NewKeyDescriptionLength == 66
KeyDescriptionLength == 64

\* ALLIANCE_OPTIONS.sync.playerName (SYNC_PLAYER_BY_SHARD[Game.shard.name])
leaderPlayerName == "leader"
\* AllianceManager.getMyUserName()
myUserName == "me"

COUNCIL == "council"
MEMBER == "member"
INACTIVE == "inactive"
ASSOCIATE == "associate"

(***************************************************************************)
(* The world the methods act on: the three objects and the host.  A method *)
(* is an operator from a world (and arguments) to [w |-> world, ret |->    *)
(* return value].                                                          *)
(***************************************************************************)
World == [sp |-> sp, ds |-> ds, am |-> am, raw |-> RawMemory, game |-> Game, ev |-> ev]

Ret(w, v) == [w |-> w, ret |-> v]

\* F applied to the value of e, with e evaluated once: the result of a call held
\* in a local constant
Then(e, F(_)) == CHOOSE x \in {F(r) : r \in {e}} : TRUE

\* RawMemory.foreignSegment || {}
NoForeignSegment == [username |-> "", id |-> 0, data |-> Undef]

(***************************************************************************)
(* class ForeignSegmentProvider                                            *)
(***************************************************************************)
\* constructor()
NewForeignSegmentProvider ==
    [requestedPlayerName |-> "", requestedSegmentId |-> 0, dataRaw |-> Undef, data |-> Undef]

\* read(raw) with the owner and id comparison left out
readNoOwnerCheck(w, raw) ==
    LET fs == w.raw.foreignSegment
        from == <<fs.username, fs.id>>
    IN  IF ~Truthy(fs.data)
        THEN Ret(w, Undef)
        ELSE IF raw
        THEN Ret([w EXCEPT !.sp.data = Undef, !.sp.dataRaw = fs.data, !.ev.from = from], fs.data)
        ELSE IF JSONparses(fs.data)
        THEN Ret([w EXCEPT !.sp.data = JSONparse(fs.data), !.sp.dataRaw = fs.data,
                           !.ev.from = from], JSONparse(fs.data))
        ELSE Ret(w, ERR_JSON_PARSE_FAILED)

\* read(raw) answering from this.dataRaw / this.data once they are set
readCached(w, raw) ==
    LET fs == w.raw.foreignSegment
        from == <<fs.username, fs.id>>
    IN  IF \/ fs.username # w.sp.requestedPlayerName
           \/ fs.id # w.sp.requestedSegmentId
           \/ ~Truthy(fs.data)
        THEN Ret(w, Undef)
        ELSE IF w.sp.dataRaw # Undef
        THEN Ret([w EXCEPT !.ev.from = from], IF raw THEN w.sp.dataRaw ELSE w.sp.data)
        ELSE IF raw
        THEN Ret([w EXCEPT !.sp.data = Undef, !.sp.dataRaw = fs.data, !.ev.from = from], fs.data)
        ELSE IF JSONparses(fs.data)
        THEN Ret([w EXCEPT !.sp.data = JSONparse(fs.data), !.sp.dataRaw = fs.data,
                           !.ev.from = from], JSONparse(fs.data))
        ELSE Ret(w, ERR_JSON_PARSE_FAILED)

\* read(raw = false); ev.from records whose segment the returned content came from
read(w, raw) ==
    LET fs == w.raw.foreignSegment
        from == <<fs.username, fs.id>>
    IN  IF \/ fs.username # w.sp.requestedPlayerName
           \/ fs.id # w.sp.requestedSegmentId
           \/ ~Truthy(fs.data)
        THEN Ret(w, Undef)
        ELSE IF raw
        THEN Ret([w EXCEPT !.sp.data = Undef, !.sp.dataRaw = fs.data, !.ev.from = from], fs.data)
        ELSE IF JSONparses(fs.data)
        THEN Ret([w EXCEPT !.sp.data = JSONparse(fs.data), !.sp.dataRaw = fs.data,
                           !.ev.from = from], JSONparse(fs.data))
        ELSE Ret(w, ERR_JSON_PARSE_FAILED)

\* requestSegment(playerName, segmentId); RawMemory.setActiveForeignSegment takes
\* effect at the next tick
requestSegment(w, playerName, id) ==
    [w EXCEPT !.sp = [requestedPlayerName |-> playerName, requestedSegmentId |-> id,
                      dataRaw |-> Undef, data |-> Undef],
              !.raw.activeForeignSegment = [username |-> playerName, id |-> id],
              !.ev.subscribed = w.game.time,
              !.ev.retargeted = TRUE]

\* readSegment(playerName, segmentId, raw = false)
readSegment(w, playerName, id, raw) ==
    IF w.sp.requestedPlayerName # playerName \/ w.sp.requestedSegmentId # id
    THEN Ret(requestSegment(w, playerName, id), NEXT_TICK)
    ELSE read(w, raw)

\* writeSegment(segmentId, data, raw): RawMemory.segments[segmentId] = ...
writeSegment(w, id, data, raw) ==
    [w EXCEPT !.raw.segments[id] = IF raw THEN data ELSE JSONstringify(data)]

\* writeEncryptedSegment(segmentId, data, key)
writeEncryptedSegment(w, id, data, key) ==
    LET s == JSONstringify(data)
    IN  writeSegment(w, id, IF Truthy(s) THEN encrypt(s, key) ELSE EmptyString, TRUE)

\* readEncryptedSegment(playerName, segmentId, key); decrypt on an undefined key
\* throws inside the try block
readEncryptedSegment(w, playerName, id, key) ==
    Then(readSegment(w, playerName, id, TRUE), LAMBDA r :
        LET data == r.ret
        IN  IF data = EmptyString THEN Ret(r.w, EmptyObject)
            ELSE IF data = NEXT_TICK \/ ~Truthy(data) THEN r
            ELSE IF key = "" THEN Ret(r.w, ERR_JSON_PARSE_FAILED)
            ELSE LET s == decrypt(data, key)
                 IN  IF ~StartsWithBrace(s) THEN Ret(r.w, ERR_DECRYPTION_FAILED)
                     ELSE IF JSONparses(s) THEN Ret(r.w, JSONparse(s))
                     ELSE Ret(r.w, ERR_JSON_PARSE_FAILED))

(***************************************************************************)
(* The host: players, what their public segments may hold, and the tick.   *)
(***************************************************************************)
\* 64-hex-digit keys: two the leader hands out, and one no member is given
KeyK1 == "K1"
KeyK2 == "K2"
KeyKX == "KX"

Ranks == {COUNCIL, MEMBER, ASSOCIATE, INACTIVE}

Ally(name, rank) == [name |-> name, rank |-> rank]

\* data.allies, in the key order of the JSON text
RosterAB == <<Ally(leaderPlayerName, COUNCIL), Ally(myUserName, MEMBER),
              Ally("a", MEMBER), Ally("b", COUNCIL)>>
RosterA == <<Ally(leaderPlayerName, COUNCIL), Ally(myUserName, MEMBER),
             Ally("a", ASSOCIATE), Ally("b", MEMBER)>>

\* the object the leader publishes: {allies, keyExpireTime, room}; a property that
\* is absent holds FALSE / 0 / ""
LeaderData(hasAllies, allies, keyExpireTime, room) ==
    [hasAllies |-> hasAllies, allies |-> allies,
     keyExpireTime |-> keyExpireTime, room |-> room]

\* the object a peer publishes: a subset of the request kinds
PeerFull == [resource |-> Arr("r"), attack |-> Arr("x"), player |-> Arr("p")]
PeerResource == [resource |-> Arr("r2")]

\* the tick construction happens at, and the expiry ticks the leader announces:
\* one that falls within the run and one more than 1000 ticks away
StartTime == 2000
ExpireSoon == StartTime + 4
ExpireLate == StartTime + KeyRequestWindow + 6

LeaderObjects ==
    { LeaderData(TRUE, RosterAB, 0, "W1N1"),
      LeaderData(TRUE, RosterA, ExpireSoon, "W1N1"),
      LeaderData(FALSE, <<>>, ExpireLate, "") }

\* what the leader's roster segment may hold at a settle point
LeaderSegments ==
    {EmptyString, Str(KeyK1, BadJson)}
    \cup {Str(KeyK1, Json(o)) : o \in LeaderObjects}
    \cup {Str(KeyK2, Json(LeaderData(TRUE, RosterAB, 0, "W1N1")))}

\* what a peer's data segment may hold at a settle point
PeerSegments ==
    { EmptyString, Str(KeyK1, Json(PeerFull)), Str(KeyK1, Json(PeerResource)),
      Str(KeyK1, Json(<<>>)), Str(KeyK1, BadJson), Str(KeyK2, Json(PeerFull)) }

Peers == {leaderPlayerName, "a", "b"}

\* the data of RawMemory.foreignSegment for the active request
SegmentContents(username, id) ==
    IF username = leaderPlayerName /\ id = segmentId THEN LeaderSegments
    ELSE IF username \in Peers /\ id = dataSegmentId THEN PeerSegments
    ELSE {Undef}

\* RawMemory at construction: nothing requested, the private key segment not
\* active, nothing saved yet
NewRawMemory ==
    [foreignSegment |-> NoForeignSegment,
     activeForeignSegment |-> [username |-> "", id |-> 0],
     segments |-> [i \in {keySegmentId, dataSegmentId} |-> Undef],
     saved |-> [i \in {keySegmentId, dataSegmentId} |-> EmptyString],
     activeSegments |-> {}]

\* the host between two ticks: segments written are saved, the active segments and
\* the requested foreign segment (holding data) become visible
Settle(raw, data) ==
    LET saved == [i \in DOMAIN raw.saved |->
                    IF raw.segments[i] # Undef THEN raw.segments[i] ELSE raw.saved[i]]
    IN  [raw EXCEPT
           !.saved = saved,
           !.segments = [i \in DOMAIN raw.saved |->
                           IF i \in raw.activeSegments THEN saved[i] ELSE Undef],
           !.foreignSegment =
               IF raw.activeForeignSegment.username = "" THEN NoForeignSegment
               ELSE [username |-> raw.activeForeignSegment.username,
                     id |-> raw.activeForeignSegment.id,
                     data |-> data]]

\* What the last call (a provider call, or AllianceManager.sync) did; subscribed
\* (the tick of the last requestSegment) and polls (the peers of the last
\* completed peer polls) are kept from call to call
NoPoll == [t |-> "none"]

NoEvent ==
    [op |-> "", ret |-> Undef, from |-> <<"", 0>>, retargeted |-> FALSE, raw |-> FALSE,
     subscribed |-> -1, polls |-> <<>>,
     calls |-> <<>>, leader |-> NoPoll, member |-> "", poll |-> NoPoll,
     useNewKey |-> FALSE, keyDataBefore |-> <<>>, txRead |-> FALSE,
     promoted |-> FALSE, sent |-> 0, refused |-> 0,
     rr |-> "", peer |-> "", peerSegment |-> NoPoll, peerData |-> NoPoll,
     cachedBefore |-> NoPoll,
     cursorBefore |-> 0, nextBefore |-> 0, cacheBefore |-> <<>>,
     thrown |-> FALSE, userCalls |-> 0]

\* a TypeError raised by the read of a property of undefined: the call in progress
\* is abandoned
Throw(w) == [w EXCEPT !.ev.thrown = TRUE]

Begin(w, op) ==
    [w EXCEPT !.ev = [NoEvent EXCEPT !.op = op,
                                     !.subscribed = w.ev.subscribed,
                                     !.polls = w.ev.polls,
                                     !.userCalls = w.ev.userCalls]]

(***************************************************************************)
(* The ForeignSegmentProvider called directly, in any order, by the code   *)
(* that shares the provider with the AllianceManager.                      *)
(***************************************************************************)
MaxChannelTicks == 3

ChannelTargets == {<<leaderPlayerName, segmentId>>, <<"a", dataSegmentId>>,
                   <<"a", segmentId>>}

Commit(r) ==
    /\ sp' = r.w.sp
    /\ RawMemory' = r.w.raw
    /\ ev' = [r.w.ev EXCEPT !.ret = r.ret]

CallRequestSegment ==
    /\ pc = "api"
    /\ \E t \in ChannelTargets :
         Commit(Ret(requestSegment(Begin(World, "requestSegment"), t[1], t[2]), Undef))
    /\ UNCHANGED <<ds, am, Game, pc, cipherVars>>

CallReadSegment ==
    /\ pc = "api"
    /\ \E t \in ChannelTargets, raw \in BOOLEAN :
         Commit(readSegment([Begin(World, "readSegment") EXCEPT !.ev.raw = raw],
                            t[1], t[2], raw))
    /\ UNCHANGED <<ds, am, Game, pc, cipherVars>>

CallRead ==
    /\ pc = "api"
    /\ \E raw \in BOOLEAN :
         Commit(read([Begin(World, "read") EXCEPT !.ev.raw = raw], raw))
    /\ UNCHANGED <<ds, am, Game, pc, cipherVars>>

CallReadEncryptedSegment ==
    /\ pc = "api"
    /\ \E t \in ChannelTargets, key \in {KeyK1, KeyK2} :
         Commit(readEncryptedSegment(Begin(World, "readEncryptedSegment"), t[1], t[2], key))
    /\ UNCHANGED <<ds, am, Game, pc, cipherVars>>

\* the tick ends: the host settles the request
ChannelTick ==
    /\ pc = "api"
    /\ Game.time < StartTime + MaxChannelTicks
    /\ \E data \in SegmentContents(RawMemory.activeForeignSegment.username,
                                   RawMemory.activeForeignSegment.id) :
         RawMemory' = Settle(RawMemory, data)
    /\ Game' = [Game EXCEPT !.time = Game.time + 1]
    /\ ev' = [ev EXCEPT !.op = "tick"]
    /\ UNCHANGED <<sp, ds, am, pc, cipherVars>>

\* Game at construction
NewGame == [time |-> StartTime, incomingTransactions |-> <<>>, terminals |-> <<>>]

\* the program objects while another specification runs
IdleProgram ==
    /\ sp = NewForeignSegmentProvider
    /\ ds = <<>>
    /\ am = <<>>
    /\ RawMemory = NewRawMemory
    /\ Game = NewGame
    /\ ev = NoEvent
    /\ pc = "idle"

\* the text harness while another specification runs
IdleText ==
    /\ tMsg = <<>>
    /\ tEncKey = <<>>
    /\ tDecKey = <<>>
    /\ tSafe = <<>>
    /\ tBack = <<>>
    /\ tPc = "idle"

\* the cipher harness while another specification runs
IdleCipher ==
    /\ cMsg = <<>>
    /\ cKey = <<>>
    /\ cV = <<>>
    /\ cSum = ZeroW
    /\ cQ = 0
    /\ cOut = <<>>
    /\ cBack = <<>>
    /\ cPc = "idle"
    /\ cSums = <<>>
    /\ cDecSums = <<>>
    /\ IdleText


(***************************************************************************)
(* class AllianceDataSync                                                  *)
(***************************************************************************)
\* {key: undefined, expire: null}: the KeyRecord of readKeyFromLocalSegment
DefaultKeyData == [key |-> "", newKey |-> "", expire |-> 0, leaderRoom |-> ""]

\* constructor(...): keyData = undefined, nextSyncTime = Game.time
NewAllianceDataSync(time) ==
    [loaded |-> FALSE, keyData |-> DefaultKeyData, nextSyncTime |-> time]

\* saveKeyData(): RawMemory.segments[this.keySegmentId] = JSON.stringify(this.keyData)
saveKeyData(w) ==
    [w EXCEPT !.raw.segments[keySegmentId] = Str("", Json(w.ds.keyData))]

\* the condition of lines 221-223 on one transaction
IsKeyDelivery(tx) ==
    /\ tx.sender = leaderPlayerName
    /\ tx.resourceType = "energy"
    /\ tx.amount = KeyRequestAmount

\* a transaction whose description is undefined
NoDescription == [length |-> -1, key |-> ""]

\* the loop of readKeyFromTransactions from transaction n (1-indexed) with counter
\* i: the index of the delivery it acts on, 0 when it ends without one, -1 when
\* transaction.description.length is read of an undefined description
RECURSIVE ScanTransactions(_, _, _, _)
ScanTransactions(txs, n, i, time) ==
    IF n > Len(txs) THEN 0
    ELSE IF time > txs[n].time + TransactionMaxAge THEN 0
    ELSE IF IsKeyDelivery(txs[n]) /\ txs[n].description = NoDescription THEN -1
    ELSE IF /\ IsKeyDelivery(txs[n])
            /\ txs[n].description.length \in {NewKeyDescriptionLength, KeyDescriptionLength}
         THEN n
    ELSE IF i + 1 >= TransactionScanLimit THEN 0
    ELSE ScanTransactions(txs, n + 1, i + 1, time)

\* readKeyFromTransactions(); description.key is description.slice(2) of a
\* 66-character description and the description itself of a 64-character one
readKeyFromTransactions(w) ==
    LET txs == w.game.incomingTransactions
        n == ScanTransactions(txs, 1, 0, w.game.time)
    IN  IF n = 0 THEN Ret(w, FALSE)
        ELSE IF n = -1 THEN Ret(Throw(w), FALSE)
        ELSE IF txs[n].description.length = NewKeyDescriptionLength
        THEN Ret(saveKeyData([w EXCEPT !.ds.keyData.newKey = txs[n].description.key,
                                       !.ev.txRead = TRUE]), TRUE)
        ELSE Ret(saveKeyData([w EXCEPT !.ds.keyData.key = txs[n].description.key,
                                       !.ev.txRead = TRUE]), TRUE)

\* readKeyFromLocalSegment(): JSON.parse(data || 'null') || {key: undefined, expire: null}
readKeyFromLocalSegment(w) ==
    LET data == w.raw.segments[keySegmentId]
    IN  IF data = Undef
        THEN Ret([w EXCEPT !.raw.activeSegments = {keySegmentId}], FALSE)
        ELSE Ret([w EXCEPT !.ds.keyData = IF Truthy(data) THEN data.text.o ELSE DefaultKeyData,
                           !.ds.loaded = TRUE], TRUE)

\* setKeyData(expire, leaderRoom)
setKeyData(w, expire, leaderRoom) ==
    IF expire = w.ds.keyData.expire /\ leaderRoom = w.ds.keyData.leaderRoom
    THEN w
    ELSE saveKeyData([w EXCEPT !.ds.keyData.expire = expire,
                               !.ds.keyData.leaderRoom = leaderRoom])

\* setLeaderRoom(leaderRoom); keyData is undefined until the key record is loaded
setLeaderRoom(w, leaderRoom) ==
    IF ~w.ds.loaded THEN Throw(w)
    ELSE saveKeyData([w EXCEPT !.ds.keyData.leaderRoom = leaderRoom])

\* clearKey(); keyData is undefined until the key record is loaded
clearKey(w) ==
    IF ~w.ds.loaded THEN Throw(w)
    ELSE saveKeyData([w EXCEPT !.ds.keyData.key = ""])

\* setActiveSegments(segments): this.keyData ? segments : segments.concat([keySegmentId])
setActiveSegments(w, segments) ==
    [w EXCEPT !.raw.activeSegments =
                  IF w.ds.loaded THEN segments ELSE segments \cup {keySegmentId}]

\* an object without keys
hasNoKeys(data) == DOMAIN data.o = {}

\* isEmptyObject(data)
isEmptyObject(data) == \A f \in DOMAIN data.o : ~Truthy(data.o[f])

\* writeMyData(data); keyData is undefined until the key record is loaded
writeMyData(w, data) ==
    IF ~w.ds.loaded THEN Throw(w)
    ELSE IF w.ds.keyData.key = "" THEN w
    ELSE writeEncryptedSegment(w, dataSegmentId,
                               IF isEmptyObject(data) THEN Undef ELSE data,
                               w.ds.keyData.key)

\* AllianceManager.saveMyData(), the onKeyChanged callback (dataSync is set)
saveMyData(w) == writeMyData(w, w.am.myData)

\* updateExpiredKey()
updateExpiredKey(w) ==
    LET kd == w.ds.keyData
    IN  IF kd.key # "" /\ kd.expire # 0 /\ w.game.time >= kd.expire
        THEN Then(saveKeyData([w EXCEPT !.ds.keyData.key = kd.newKey,
                                        !.ds.keyData.newKey = "",
                                        !.ds.keyData.expire = 0,
                                        !.ev.promoted = TRUE]), LAMBDA w1 :
                 Ret(IF w1.ds.keyData.key # "" THEN saveMyData(w1) ELSE w1, TRUE))
        ELSE Ret(w, FALSE)

\* the answers of terminal.send: OK, ERR_TIRED (-11), and any other error code of
\* the host
OK == [t |-> "number", v |-> 0]
ERR_TIRED == [t |-> "number", v |-> -11]
ERR_REFUSED == [t |-> "number", v |-> -6]

\* StructureTerminal.prototype.send as patched at lines 836-848, on terminal n,
\* res being the answer of sendOriginal
send(w, n, res) ==
    IF w.game.terminals[n].isUsed THEN Ret(w, ERR_TIRED)
    ELSE IF res = OK THEN Ret([w EXCEPT !.game.terminals[n].isUsed = TRUE], OK)
    ELSE Ret(w, res)

\* the loop of requestKey without the cooldown test
RECURSIVE SendIgnoringCooldown(_, _, _)
SendIgnoringCooldown(w, n, sendOk) ==
    IF n > Len(w.game.terminals) THEN w
    ELSE LET t == w.game.terminals[n]
         IN  IF t.energy >= MinTerminalEnergy
             THEN Then(send(w, n, IF sendOk[n] THEN OK ELSE ERR_REFUSED), LAMBDA r :
                      IF r.ret = OK
                      THEN [r.w EXCEPT !.ev.sent = w.ev.sent + 1]
                      ELSE SendIgnoringCooldown([r.w EXCEPT !.ev.refused = w.ev.refused + 1],
                                                n + 1, sendOk))
             ELSE SendIgnoringCooldown(w, n + 1, sendOk)

\* the loop of requestKey (lines 347-358) from terminal n on: a terminal with zero
\* cooldown and enough energy is asked to send, and the loop ends at the first
\* send that answers OK; sendOk[n] tells whether sendOriginal accepts the
\* transfer of terminal n
RECURSIVE SendFromTerminals(_, _, _)
SendFromTerminals(w, n, sendOk) ==
    IF n > Len(w.game.terminals) THEN w
    ELSE LET t == w.game.terminals[n]
         IN  IF t.cooldown = 0 /\ t.energy >= MinTerminalEnergy
             THEN Then(send(w, n, IF sendOk[n] THEN OK ELSE ERR_REFUSED), LAMBDA r :
                      IF r.ret = OK
                      THEN [r.w EXCEPT !.ev.sent = w.ev.sent + 1]
                      ELSE SendFromTerminals([r.w EXCEPT !.ev.refused = w.ev.refused + 1],
                                             n + 1, sendOk))
             ELSE SendFromTerminals(w, n + 1, sendOk)

\* requestKey() reporting NEXT_TICK on every path
requestKeyPending(w, sendOk) ==
    IF w.ds.keyData.newKey # "" THEN Ret(w, NEXT_TICK)
    ELSE Then(readKeyFromTransactions(w), LAMBDA r :
             IF r.w.ev.thrown THEN Ret(r.w, Undef)
             ELSE IF r.ret THEN Ret(r.w, NEXT_TICK)
             ELSE IF w.ds.keyData.leaderRoom = "" THEN Ret(w, NEXT_TICK)
             ELSE IF Len(w.game.terminals) = 0 THEN Ret(w, NEXT_TICK)
             ELSE Ret(SendFromTerminals(w, 1, sendOk), NEXT_TICK))

\* requestKey(); Game.terminals holds the terminals getValidTerminal accepts
requestKey(w, sendOk) ==
    IF w.ds.keyData.newKey # "" THEN Ret(w, Undef)
    ELSE Then(readKeyFromTransactions(w), LAMBDA r :
             IF r.w.ev.thrown THEN Ret(r.w, Undef)
             ELSE IF r.ret THEN Ret(r.w, NEXT_TICK)
             ELSE IF w.ds.keyData.leaderRoom = "" THEN Ret(w, NEXT_TICK)
             ELSE IF Len(w.game.terminals) = 0 THEN Ret(w, NEXT_TICK)
             ELSE Ret(SendFromTerminals(w, 1, sendOk), Undef))

\* readAllyData(playerName)
readAllyData(w, playerName) ==
    IF w.ds.keyData.key = "" THEN Ret(w, Undef)
    ELSE Then(readEncryptedSegment(w, playerName, dataSegmentId, w.ds.keyData.key),
              LAMBDA r :
                 LET w1 == [r.w EXCEPT !.ev.peerSegment = r.ret]
                 IN  IF r.ret = NEXT_TICK \/ ~Truthy(r.ret) THEN Ret(w1, r.ret)
                     ELSE IF ObjectKeysLength(r.ret) = 0 THEN Ret(w1, Undef)
                     ELSE Ret(w1, r.ret))

\* the record of lines 431-435 without its leaderRoom
StaleKeyDataNoRoom(kd) ==
    [key |-> "", newKey |-> "", expire |-> 0, leaderRoom |-> ""]

\* the key record written when the leader's segment fails to decrypt (lines 431-435)
StaleKeyData(kd) ==
    [key |-> "", newKey |-> "", expire |-> 0, leaderRoom |-> kd.leaderRoom]

\* the poll of the leader's segment dropping the key on text that does not parse
pollLeaderDropKey(w) ==
    LET kd == w.ds.keyData
        useNewKey == kd.newKey # "" /\ kd.expire = 0
    IN  Then(readEncryptedSegment(w, leaderPlayerName, segmentId,
                                  IF useNewKey THEN kd.newKey ELSE kd.key),
             LAMBDA r :
        LET w1 == [r.w EXCEPT !.ev.member = "poll", !.ev.poll = r.ret,
                              !.ev.useNewKey = useNewKey, !.ev.keyDataBefore = kd]
            data == r.ret
        IN  IF data = NEXT_TICK \/ ~Truthy(data) THEN Ret(w1, NEXT_TICK)
            ELSE IF data = ERR_DECRYPTION_FAILED \/ data = ERR_JSON_PARSE_FAILED
            THEN Ret(saveKeyData([w1 EXCEPT !.ds.keyData = StaleKeyData(kd)]), Undef)
            ELSE IF data.o.keyExpireTime # 0 \/ data.o.room # ""
            THEN Ret(setKeyData(w1, data.o.keyExpireTime, data.o.room), data)
            ELSE Ret(w1, data))

\* syncMember() from line 416 on: the poll of the leader's segment
pollLeader(w) ==
    LET kd == w.ds.keyData
        useNewKey == kd.newKey # "" /\ kd.expire = 0
    IN  Then(readEncryptedSegment(w, leaderPlayerName, segmentId,
                                  IF useNewKey THEN kd.newKey ELSE kd.key),
             LAMBDA r :
        LET w1 == [r.w EXCEPT !.ev.member = "poll", !.ev.poll = r.ret,
                              !.ev.useNewKey = useNewKey, !.ev.keyDataBefore = kd]
            data == r.ret
        IN  IF data = NEXT_TICK \/ ~Truthy(data) THEN Ret(w1, NEXT_TICK)
            ELSE IF data = ERR_JSON_PARSE_FAILED THEN Ret(w1, Undef)
            ELSE IF data = ERR_DECRYPTION_FAILED
            THEN IF useNewKey THEN Ret(w1, Undef)
                 ELSE Ret(saveKeyData([w1 EXCEPT !.ds.keyData = StaleKeyData(kd)]),
                          NEXT_TICK)
            ELSE IF data.o.keyExpireTime # 0 \/ data.o.room # ""
            THEN Ret(setKeyData(w1, data.o.keyExpireTime, data.o.room), data)
            ELSE Ret(w1, data))

\* syncMember() from line 405 on: the key record is loaded
syncMemberLoaded(w, sendOk) ==
    LET kd == w.ds.keyData
    IN  Then(updateExpiredKey(w), LAMBDA u :
        IF u.ret THEN Ret([u.w EXCEPT !.ev.member = "expired", !.ev.keyDataBefore = kd],
                          NEXT_TICK)
        ELSE IF \/ kd.key = ""
                \/ (kd.expire # 0 /\ w.game.time >= kd.expire - KeyRequestWindow)
        THEN Then(requestKey(w, sendOk), LAMBDA r :
                 Ret([r.w EXCEPT !.ev.member = "requestKey", !.ev.keyDataBefore = kd],
                     r.ret))
        ELSE pollLeader(w))

\* syncMember()
syncMember(w, sendOk) ==
    IF ~w.ds.loaded
    THEN Then(readKeyFromLocalSegment(w), LAMBDA r :
             IF ~r.ret THEN Ret([r.w EXCEPT !.ev.member = "load"], NEXT_TICK)
             ELSE syncMemberLoaded(r.w, sendOk))
    ELSE syncMemberLoaded(w, sendOk)

\* AllianceDataSync.sync()
dataSyncSync(w, sendOk) ==
    IF w.game.time < w.ds.nextSyncTime THEN Ret(w, Undef)
    ELSE Then(syncMember(w, sendOk), LAMBDA r :
             IF r.w.ev.thrown THEN r
             ELSE IF r.ret # NEXT_TICK
             THEN Ret([r.w EXCEPT !.ds.nextSyncTime = w.game.time + syncInterval], r.ret)
             ELSE r)

(***************************************************************************)
(* class AllianceManager                                                   *)
(***************************************************************************)
\* this.allies[playerName]: the rank, or undefined ("")
getAllyStatus(allies, playerName) ==
    IF \E i \in 1..Len(allies) : allies[i].name = playerName
    THEN allies[CHOOSE i \in 1..Len(allies) : allies[i].name = playerName].rank
    ELSE ""

\* hasPermissionPublishRequests(allyStatus)
hasPermissionPublishRequests(allyStatus) == allyStatus = COUNCIL \/ allyStatus = MEMBER

\* Object.keys(this.allies).filter(...), in key order
RECURSIVE EligibleAllies(_)
EligibleAllies(allies) ==
    IF Len(allies) = 0 THEN <<>>
    ELSE LET a == allies[1]
             rest == EligibleAllies(Tail(allies))
         IN  IF a.name # myUserName /\ hasPermissionPublishRequests(a.rank)
             THEN <<a.name>> \o rest
             ELSE rest

\* updateSyncDataAllies() without the cleaning of the cache
updateSyncDataAlliesKeep(m) ==
    [m EXCEPT !.syncDataIndex = 0,
              !.syncDataAllies = EligibleAllies(m.allies)]

\* updateSyncDataAllies()
updateSyncDataAllies(m) ==
    [m EXCEPT !.syncDataIndex = 0,
              !.syncDataAllies = EligibleAllies(m.allies),
              !.alliesData = [p \in DOMAIN m.alliesData |->
                  IF hasPermissionPublishRequests(getAllyStatus(m.allies, p))
                  THEN m.alliesData[p] ELSE Undef]]

\* constructor(options): allies, myData and alliesData come from Memory
NewAllianceManager(allies, myData, alliesData) ==
    updateSyncDataAllies(
        [allies |-> allies, syncDataAllies |-> <<>>, syncDataIndex |-> 0,
         nextDataSync |-> 0, alliesData |-> alliesData, myData |-> myData])

\* no field is withheld
applyPermissionsNone(data, allyStatus) == IF ~Truthy(data) THEN Undef ELSE data

\* applyPermissions(data, allyStatus)
applyPermissions(data, allyStatus) ==
    IF ~Truthy(data) THEN Undef
    ELSE IF allyStatus = MEMBER
    THEN Obj([f \in DOMAIN data.o \cup {"attack", "player"} |->
                 IF f \in {"attack", "player"} THEN Undef ELSE data.o[f]])
    ELSE data

\* syncAllies() going on when the leader step reports NEXT_TICK
syncAlliesAlways(w, sendOk) ==
    Then(dataSyncSync(w, sendOk), LAMBDA r :
        LET w1 == [r.w EXCEPT !.ev.leader = r.ret,
                              !.ev.calls = Append(r.w.ev.calls, "syncAllies")]
            data == r.ret
        IN  IF r.w.ev.thrown THEN Ret(r.w, FALSE)
            ELSE IF Truthy(data) /\ data.t = "object" /\ data.o.hasAllies
            THEN Ret([w1 EXCEPT !.am = updateSyncDataAllies(
                                           [r.w.am EXCEPT !.allies = data.o.allies])], TRUE)
            ELSE Ret(w1, TRUE))

\* syncAllies()
syncAllies(w, sendOk) ==
    Then(dataSyncSync(w, sendOk), LAMBDA r :
        LET w1 == [r.w EXCEPT !.ev.leader = r.ret,
                              !.ev.calls = Append(r.w.ev.calls, "syncAllies")]
            data == r.ret
        IN  IF r.w.ev.thrown THEN Ret(r.w, FALSE)
            ELSE IF data = NEXT_TICK THEN Ret(w1, FALSE)
            ELSE IF Truthy(data) /\ data.t = "object" /\ data.o.hasAllies
            THEN Ret([w1 EXCEPT !.am = updateSyncDataAllies(
                                           [r.w.am EXCEPT !.allies = data.o.allies])], TRUE)
            ELSE Ret(w1, TRUE))

\* this.alliesData[playerName] = value
SetAllyData(alliesData, playerName, value) ==
    [p \in DOMAIN alliesData \cup {playerName} |->
        IF p = playerName THEN value ELSE alliesData[p]]

\* the last k entries of the sequence of polled peers
LastPolls(s, k) ==
    IF Len(s) <= k THEN s ELSE SubSeq(s, Len(s) - k + 1, Len(s))

\* syncAlliesData() moving the cursor on a pending poll too
syncAlliesDataHasty(w0) ==
    Then([w0 EXCEPT !.ev.calls = Append(w0.ev.calls, "syncAlliesData"),
                    !.ev.cursorBefore = w0.am.syncDataIndex,
                    !.ev.nextBefore = w0.am.nextDataSync,
                    !.ev.cacheBefore = w0.am.alliesData], LAMBDA w :
    IF w.game.time < w.am.nextDataSync THEN [w EXCEPT !.ev.rr = "gated"]
    ELSE
    LET playerName == IF w.am.syncDataIndex + 1 <= Len(w.am.syncDataAllies)
                      THEN w.am.syncDataAllies[w.am.syncDataIndex + 1] ELSE ""
    IN  Then(readAllyData([w EXCEPT !.ev.peer = playerName], playerName),
             LAMBDA r :
        LET data == r.ret
            next == IF r.w.am.syncDataIndex + 1 >= Len(r.w.am.syncDataAllies)
                    THEN 0 ELSE r.w.am.syncDataIndex + 1
        IN  IF data = NEXT_TICK
            THEN [r.w EXCEPT !.am.syncDataIndex = next, !.ev.rr = "pending"]
            ELSE [r.w EXCEPT !.am.alliesData =
                                 SetAllyData(r.w.am.alliesData, playerName,
                                     applyPermissions(data,
                                         getAllyStatus(r.w.am.allies, playerName))),
                             !.am.syncDataIndex = next,
                             !.am.nextDataSync = w.game.time + interval,
                             !.ev.rr = "done", !.ev.peerData = data]))

\* syncAlliesData(); nextDataSync is undefined (0) until first set
syncAlliesData(w0) ==
    Then([w0 EXCEPT !.ev.calls = Append(w0.ev.calls, "syncAlliesData"),
                    !.ev.cursorBefore = w0.am.syncDataIndex,
                    !.ev.nextBefore = w0.am.nextDataSync,
                    !.ev.cacheBefore = w0.am.alliesData], LAMBDA w :
    IF w.game.time < w.am.nextDataSync THEN [w EXCEPT !.ev.rr = "gated"]
    ELSE
    LET playerName == IF w.am.syncDataIndex + 1 <= Len(w.am.syncDataAllies)
                      THEN w.am.syncDataAllies[w.am.syncDataIndex + 1] ELSE ""
        before == IF playerName \in DOMAIN w.am.alliesData
                  THEN w.am.alliesData[playerName] ELSE Undef
    IN  Then(readAllyData([w EXCEPT !.ev.peer = playerName,
                                    !.ev.cachedBefore = before], playerName),
             LAMBDA r :
        LET data == r.ret
            cached == IF data = ERR_DECRYPTION_FAILED \/ data = ERR_JSON_PARSE_FAILED
                      THEN r.w.am.alliesData
                      ELSE SetAllyData(r.w.am.alliesData, playerName,
                               applyPermissions(data,
                                   getAllyStatus(r.w.am.allies, playerName)))
            next == IF r.w.am.syncDataIndex + 1 >= Len(r.w.am.syncDataAllies)
                    THEN 0 ELSE r.w.am.syncDataIndex + 1
        IN  IF data = NEXT_TICK THEN [r.w EXCEPT !.ev.rr = "pending"]
            ELSE [r.w EXCEPT !.am.alliesData = cached,
                             !.am.syncDataIndex = next,
                             !.am.nextDataSync =
                                 IF data # Undef \/ next = 0
                                 THEN w.game.time + interval ELSE @,
                             !.ev.rr = "done", !.ev.peerData = data,
                             !.ev.polls = LastPolls(Append(w.ev.polls, playerName),
                                                    Len(w.am.syncDataAllies))]))

\* AllianceManager.sync(); dataSync is set and enabled
managerSync(w, sendOk) ==
    Then(syncAllies(w, sendOk), LAMBDA r :
        IF ~r.ret THEN r.w ELSE syncAlliesData(r.w))

(***************************************************************************)
(* The program: AllianceManager.sync() once per tick, after the sends the   *)
(* user code makes from its terminals in the tick, and the host between    *)
(* the ticks.                                                              *)
(***************************************************************************)
MaxTicks == 6
MaxTransactions == 1
\* ticks a terminal stays on cooldown after a send
HostTerminalCooldown == 2

Terminal(cooldown, energy) == [cooldown |-> cooldown, energy |-> energy, isUsed |-> FALSE]

\* the owned terminals of Game.rooms
TerminalSets == { <<>>, <<Terminal(0, MinTerminalEnergy)>>,
                  <<Terminal(0, 0), Terminal(1, MinTerminalEnergy)>>,
                  <<Terminal(0, MinTerminalEnergy), Terminal(0, MinTerminalEnergy)>> }

Transaction(time, sender, amount, length, key) ==
    [time |-> time, sender |-> sender, resourceType |-> "energy", amount |-> amount,
     description |-> [length |-> length, key |-> key]]

\* transfers that may come in during a tick: the leader's reply with the active
\* key, its reply with the next key, and a transfer of a peer
Arrivals(time) ==
    { Transaction(time, leaderPlayerName, KeyRequestAmount, KeyDescriptionLength, KeyK1),
      Transaction(time, leaderPlayerName, KeyRequestAmount, NewKeyDescriptionLength, KeyK2),
      Transaction(time, "a", KeyRequestAmount, KeyDescriptionLength, KeyKX) }

\* key records the private segment may hold from an earlier run of the program
SavedKeyRecords ==
    { EmptyString,
      Str("", Json([DefaultKeyData EXCEPT !.key = KeyK1, !.leaderRoom = "W1N1"])),
      Str("", Json([DefaultKeyData EXCEPT !.key = KeyK1, !.leaderRoom = "W1N1",
                                          !.expire = ExpireSoon])) }

\* Memory.allies and Memory.alliesData of an earlier run
SavedMemory ==
    { [allies |-> <<>>, alliesData |-> <<>>],
      [allies |-> RosterAB,
       alliesData |-> [p \in {"a", "b"} |-> Obj(PeerResource)]] }

MyData == Obj([resource |-> Arr("m")])

Init ==
    /\ sp = NewForeignSegmentProvider
    /\ ds = NewAllianceDataSync(StartTime)
    /\ \E m \in SavedMemory : am = NewAllianceManager(m.allies, MyData, m.alliesData)
    /\ \E k \in SavedKeyRecords : RawMemory = [NewRawMemory EXCEPT !.saved[keySegmentId] = k]
    /\ \E ts \in TerminalSets : Game = [NewGame EXCEPT !.terminals = ts]
    /\ ev = NoEvent
    /\ pc = "sync"
    /\ IdleCipher

\* one tick of the main loop: AllianceManager.sync()
Sync ==
    /\ pc = "sync"
    /\ \E sendOk \in [1..Len(Game.terminals) -> BOOLEAN] :
         \E w \in {managerSync(Begin(World, "sync"), sendOk)} :
             /\ sp' = w.sp
             /\ ds' = w.ds
             /\ am' = w.am
             /\ RawMemory' = w.raw
             /\ Game' = w.game
             /\ ev' = w.ev
    /\ pc' = "host"
    /\ UNCHANGED cipherVars

\* the user code sends from one of its terminals before sync() and the host accepts:
\* terminal.send(...) === OK (a send that is refused changes nothing)
UserSend ==
    /\ pc = "sync"
    /\ \E n \in 1..Len(Game.terminals) :
         /\ Game.terminals[n].cooldown = 0
         /\ Game.terminals[n].energy > 0
         /\ \E r \in {send(World, n, OK)} :
              /\ r.ret = OK
              /\ Game' = r.w.game
    /\ UNCHANGED <<sp, ds, am, RawMemory, ev, pc, cipherVars>>

\* a terminal at the next tick
NextTerminal(t) ==
    [t EXCEPT !.isUsed = FALSE,
              !.cooldown = IF t.isUsed THEN HostTerminalCooldown
                           ELSE IF t.cooldown > 0 THEN t.cooldown - 1 ELSE 0]

\* the transaction log at the next tick, most recent first
NextTransactions(txs, time) ==
    {txs} \cup IF Len(txs) < MaxTransactions
               THEN {<<tx>> \o txs : tx \in Arrivals(time)} ELSE {}

\* the host between two ticks
HostTick ==
    /\ pc = "host"
    /\ Game.time < StartTime + MaxTicks
    /\ \E data \in SegmentContents(RawMemory.activeForeignSegment.username,
                                   RawMemory.activeForeignSegment.id) :
         RawMemory' = Settle(RawMemory, data)
    /\ \E txs \in NextTransactions(Game.incomingTransactions, Game.time) :
         Game' = [time |-> Game.time + 1,
                  incomingTransactions |-> txs,
                  terminals |-> [i \in 1..Len(Game.terminals) |->
                                    NextTerminal(Game.terminals[i])]]
    /\ ev' = [ev EXCEPT !.op = "tick"]
    /\ pc' = "sync"
    /\ UNCHANGED <<sp, ds, am, cipherVars>>

Next == UserSend \/ Sync \/ HostTick

Spec == Init /\ [][Next]_vars

(***************************************************************************)
(* A run without failures: the key record of an earlier run, a leader that *)
(* publishes the same roster and peers that publish the same data at every *)
(* tick, no key rotation.                                                  *)
(***************************************************************************)
MaxFairTicks == 110

FairLeaderSegment == Str(KeyK1, Json(LeaderData(TRUE, RosterAB, 0, "W1N1")))
FairPeerSegment == Str(KeyK1, Json(PeerFull))

FairInit ==
    /\ sp = NewForeignSegmentProvider
    /\ ds = NewAllianceDataSync(StartTime)
    /\ am = NewAllianceManager(RosterAB, MyData, <<>>)
    /\ RawMemory = [NewRawMemory EXCEPT !.saved[keySegmentId] =
           Str("", Json([DefaultKeyData EXCEPT !.key = KeyK1, !.leaderRoom = "W1N1"]))]
    /\ Game = NewGame
    /\ ev = NoEvent
    /\ pc = "sync"
    /\ IdleCipher

\* the host between two ticks of the run without failures
FairHostTick ==
    /\ pc = "host"
    /\ Game.time < StartTime + MaxFairTicks
    /\ RawMemory' = Settle(RawMemory,
           IF /\ RawMemory.activeForeignSegment.username = leaderPlayerName
              /\ RawMemory.activeForeignSegment.id = segmentId
           THEN FairLeaderSegment ELSE FairPeerSegment)
    /\ Game' = [Game EXCEPT !.time = Game.time + 1]
    /\ ev' = [ev EXCEPT !.op = "tick"]
    /\ pc' = "sync"
    /\ UNCHANGED <<sp, ds, am, cipherVars>>

FairNext == Sync \/ FairHostTick

SpecFair == FairInit /\ [][FairNext]_vars

(***************************************************************************)
(* Key acquisition in a favourable environment: the leader room is known,  *)
(* an owned terminal is ready and its sends are accepted, the leader       *)
(* publishes its roster under KeyK2 and answers a key request with a       *)
(* delivery of KeyK2 in the next tick; sync() runs at every tick.          *)
(***************************************************************************)
MaxKeyTicks == 1120

\* the private segment of an earlier run: no key yet, or the key the leader
\* has since replaced
KeysSavedRecords ==
    { Str("", Json([DefaultKeyData EXCEPT !.leaderRoom = "W1N1"])),
      Str("", Json([DefaultKeyData EXCEPT !.key = KeyK1, !.leaderRoom = "W1N1"])) }

\* the transfer log at the start: empty, an earlier delivery of the replaced
\* key, an earlier delivery of a next key
KeysLogs ==
    { <<>>,
      <<Transaction(StartTime - 1, leaderPlayerName, KeyRequestAmount,
                    KeyDescriptionLength, KeyK1)>>,
      <<Transaction(StartTime - 1, leaderPlayerName, KeyRequestAmount,
                    NewKeyDescriptionLength, KeyK2)>> }

KeysInit ==
    /\ sp = NewForeignSegmentProvider
    /\ ds = NewAllianceDataSync(StartTime)
    /\ am = NewAllianceManager(RosterAB, MyData, <<>>)
    /\ \E k \in KeysSavedRecords : RawMemory = [NewRawMemory EXCEPT !.saved[keySegmentId] = k]
    /\ \E log \in KeysLogs :
         Game = [NewGame EXCEPT !.incomingTransactions = log,
                                !.terminals = <<Terminal(0, MinTerminalEnergy)>>]
    /\ ev = NoEvent
    /\ pc = "sync"
    /\ IdleCipher

\* AllianceManager.sync() in a tick in which the host accepts a send
SyncAccepted ==
    /\ pc = "sync"
    /\ \E w \in {managerSync(Begin(World, "sync"), [n \in 1..Len(Game.terminals) |-> TRUE])} :
         /\ sp' = w.sp
         /\ ds' = w.ds
         /\ am' = w.am
         /\ RawMemory' = w.raw
         /\ Game' = w.game
         /\ ev' = w.ev
    /\ pc' = "host"
    /\ UNCHANGED cipherVars

\* the host between two ticks: a key request of the tick is answered
KeysHostTick ==
    /\ pc = "host"
    /\ Game.time < StartTime + MaxKeyTicks
    /\ RawMemory' = Settle(RawMemory,
           IF /\ RawMemory.activeForeignSegment.username = leaderPlayerName
              /\ RawMemory.activeForeignSegment.id = segmentId
           THEN Str(KeyK2, Json(LeaderData(TRUE, RosterAB, 0, "W1N1")))
           ELSE Str(KeyK2, Json(PeerFull)))
    /\ Game' = [time |-> Game.time + 1,
                incomingTransactions |->
                    IF ev.sent > 0
                    THEN <<Transaction(Game.time, leaderPlayerName, KeyRequestAmount,
                                       KeyDescriptionLength, KeyK2)>>
                         \o Game.incomingTransactions
                    ELSE Game.incomingTransactions,
                terminals |-> [i \in 1..Len(Game.terminals) |->
                                  NextTerminal(Game.terminals[i])]]
    /\ ev' = [ev EXCEPT !.op = "tick"]
    /\ pc' = "sync"
    /\ UNCHANGED <<sp, ds, am, cipherVars>>

KeysNext == SyncAccepted \/ KeysHostTick

SpecKeys ==
    KeysInit /\ [][KeysNext]_vars /\ WF_vars(SyncAccepted) /\ WF_vars(KeysHostTick)

\* the key record is loaded and holds no active key
NoKeyHeld == ds.loaded /\ ds.keyData.key = ""

\* the sync of the last tick sent a key request
RequestSent == ev.sent > 0

\* C21 (as stated): from every state in which no active key is held, a next
\* key being held or not, continued sync steps eventually send a key request
\* or install an active key.
C21_NoStuckKey == NoKeyHeld ~> (RequestSent \/ ds.keyData.key # "")

\* the state with a next key and no active key is left by no step: the key
\* record stays and nothing is sent
C21_StuckForever ==
    [][ (NoKeyHeld /\ ds.keyData.newKey # "") =>
            (ds'.keyData = ds.keyData /\ ev'.sent = 0) ]_vars

\* a next key was taken from the transfer log while no active key is held
C21_StuckReached ==
    /\ NoKeyHeld
    /\ ds.keyData.newKey = KeyK2
    /\ Game.time > StartTime + TransactionMaxAge

\* the leader poll of the last sync failed to decrypt and the key was cleared
KeyCleared ==
    /\ pc = "host"
    /\ ev.member = "poll"
    /\ ev.poll = ERR_DECRYPTION_FAILED
    /\ ~ev.useNewKey

\* C22 (as stated): once a leader poll that fails to decrypt has cleared the
\* active key, a key request is eventually sent.
C22_RequestAfterStaleKey == KeyCleared ~> RequestSent

\* the transfer log holds no delivery of a next key
NoNextKeyDelivery ==
    \A n \in 1..Len(Game.incomingTransactions) :
        Game.incomingTransactions[n].description.length # NewKeyDescriptionLength

\* with no next-key delivery in the log the request is sent, after the
\* delivery of the replaced key has left the scan window
C22_RequestUnlessNextKey == (KeyCleared /\ NoNextKeyDelivery) ~> RequestSent

\* the key is cleared and adopted again from the log, tick after tick, for as
\* long as the delivery is inside the window
C22_Flapping ==
    /\ KeyCleared
    /\ Game.time >= StartTime + TransactionMaxAge - 2
    /\ ds.keyData.key = ""
    /\ Len(Game.incomingTransactions) = 1

\* without a next key in the record, a record without key always comes to a
\* request, a key or a next key: the runs that break C21 are those through the
\* record that holds a next key and no key
C21_OnlyNextKeyBlocks ==
    (NoKeyHeld /\ ds.keyData.newKey = "") ~>
        (RequestSent \/ ds.keyData.key # "" \/ ds.keyData.newKey # "")

\* after the key was cleared a request is sent, or the record holds a next key
\* and no key
C22_RequestOrStuck ==
    KeyCleared ~> (RequestSent \/ (NoKeyHeld /\ ds.keyData.newKey # ""))

(***************************************************************************)
(* Specifications                                                          *)
(***************************************************************************)
ChannelInit ==
    /\ sp = NewForeignSegmentProvider
    /\ ds = <<>>
    /\ am = <<>>
    /\ RawMemory = NewRawMemory
    /\ Game = NewGame
    /\ ev = NoEvent
    /\ pc = "api"
    /\ IdleCipher

ChannelNext ==
    \/ CallRequestSegment
    \/ CallReadSegment
    \/ CallRead
    \/ CallReadEncryptedSegment
    \/ ChannelTick

SpecChannel == ChannelInit /\ [][ChannelNext]_vars


(***************************************************************************)
(* Publishing: from the tick of construction on, the user code calls       *)
(* Alliance.setMyData(data) and then Alliance.sync() in a tick; the key    *)
(* record is the one an earlier run saved; the host saves the written      *)
(* segments between the ticks.                                             *)
(***************************************************************************)
MaxPublishTicks == 3

\* key records an earlier run saved in the private segment: no key, a key, a key
\* in its rotation window with the next key, the next key alone
HeldKeyRecords ==
    { [DefaultKeyData EXCEPT !.leaderRoom = "W1N1"],
      [DefaultKeyData EXCEPT !.key = KeyK1, !.leaderRoom = "W1N1"],
      [DefaultKeyData EXCEPT !.key = KeyK2, !.leaderRoom = "W1N1", !.expire = ExpireLate],
      [DefaultKeyData EXCEPT !.key = KeyK1, !.newKey = KeyK2, !.leaderRoom = "W1N1",
                             !.expire = ExpireSoon],
      [DefaultKeyData EXCEPT !.newKey = KeyK2, !.leaderRoom = "W1N1"] }

\* records the user code hands over: nothing in them, fields that hold nothing
\* (undefined, ''), populated ones
OutgoingRecords ==
    { EmptyObject,
      Obj([resource |-> Undef]),
      Obj([resource |-> EmptyString, attack |-> Undef]),
      Obj([resource |-> Arr("m")]),
      Obj([resource |-> Arr("n"), attack |-> Undef]),
      Obj([attack |-> Arr("x"), player |-> Arr("y")]) }

PublishInit ==
    /\ sp = NewForeignSegmentProvider
    /\ ds = NewAllianceDataSync(StartTime)
    /\ \E m \in SavedMemory : am = NewAllianceManager(m.allies, MyData, m.alliesData)
    /\ \E kd \in HeldKeyRecords :
         RawMemory = [NewRawMemory EXCEPT !.saved[keySegmentId] = Str("", Json(kd))]
    /\ Game = NewGame
    /\ ev = NoEvent
    /\ pc = "user"
    /\ IdleCipher

\* setMyData(data): Memory.myData = this.myData = data; this.saveMyData()
setMyData(w, data) == saveMyData([w EXCEPT !.am.myData = data])

SetMyData ==
    /\ pc = "user"
    /\ \E data \in OutgoingRecords :
         \E w \in {setMyData(Begin(World, "setMyData"), data)} :
             /\ am' = w.am
             /\ RawMemory' = w.raw
             /\ ev' = w.ev
    /\ UNCHANGED <<sp, ds, Game, pc, cipherVars>>

\* AllianceManager.sync(), the last call of the tick; no terminal is owned
PublishSync ==
    /\ pc = "user"
    /\ \E w \in {managerSync(Begin(World, "sync"), [n \in 1..Len(Game.terminals) |-> FALSE])} :
         /\ sp' = w.sp
         /\ ds' = w.ds
         /\ am' = w.am
         /\ RawMemory' = w.raw
         /\ Game' = w.game
         /\ ev' = w.ev
    /\ pc' = "host"
    /\ UNCHANGED cipherVars

\* what the leader's roster segment may hold: the roster under either key
PublishLeaderSegments ==
    { Str(k, Json(LeaderData(TRUE, RosterAB, 0, "W1N1"))) : k \in {KeyK1, KeyK2} }

\* the host between two ticks saves the segments written; a peer has published
\* nothing
PublishTick ==
    /\ pc = "host"
    /\ Game.time < StartTime + MaxPublishTicks
    /\ \E data \in IF /\ RawMemory.activeForeignSegment.username = leaderPlayerName
                       /\ RawMemory.activeForeignSegment.id = segmentId
                    THEN PublishLeaderSegments ELSE {Undef} :
         RawMemory' = Settle(RawMemory, data)
    /\ Game' = [Game EXCEPT !.time = Game.time + 1]
    /\ ev' = [ev EXCEPT !.op = "tick"]
    /\ pc' = "user"
    /\ UNCHANGED <<sp, ds, am, cipherVars>>

PublishNext == SetMyData \/ PublishSync \/ PublishTick

SpecPublish == PublishInit /\ [][PublishNext]_vars

(***************************************************************************)
(* The operations of the AllianceManager called by the user code in any    *)
(* order from the tick of construction on: setMyData, addRequest (through  *)
(* its seven wrappers), shareEcon, setLeaderRoom,                          *)
(* setActiveSegments, dataSync.clearKey and terminal.send before sync() in *)
(* a tick, and the host between the ticks.                                 *)
(***************************************************************************)
MaxCallTicks == 3
MaxRequests == 2
\* calls of the user code other than sync() counted in a run
MaxCalls == 3

\* the private segment of an earlier run
CallsSavedRecords ==
    { Str("", Json([DefaultKeyData EXCEPT !.key = KeyK1, !.leaderRoom = "W1N1"])),
      Str("", Json([DefaultKeyData EXCEPT !.leaderRoom = "W1N1"])) }

\* transfers that may come in during a tick: the leader's reply with the key its
\* roster is published under, and a transfer of 3 energy from the leader that
\* carries no description
CallsArrivals(time) ==
    { Transaction(time, leaderPlayerName, KeyRequestAmount, KeyDescriptionLength, KeyK2),
      [Transaction(time, leaderPlayerName, KeyRequestAmount, 0, "")
          EXCEPT !.description = NoDescription] }

CallsInit ==
    /\ sp = NewForeignSegmentProvider
    /\ ds = NewAllianceDataSync(StartTime)
    /\ am = NewAllianceManager(RosterAB, EmptyObject, <<>>)
    /\ \E k \in CallsSavedRecords : RawMemory = [NewRawMemory EXCEPT !.saved[keySegmentId] = k]
    /\ Game = [NewGame EXCEPT !.terminals = <<Terminal(0, MinTerminalEnergy)>>]
    /\ ev = NoEvent
    /\ pc = "sync"
    /\ IdleCipher

\* addRequest(type, request): (this.myData[type] || (this.myData[type] = [])).push(request);
\* this.saveMyData()
addRequest(w, type, request) ==
    LET o == w.am.myData.o
        requests == IF type \in DOMAIN o /\ Truthy(o[type]) THEN o[type].a ELSE <<>>
        pushed == [f \in DOMAIN o \cup {type} |->
                      IF f = type THEN Arr(Append(requests, request)) ELSE o[f]]
    IN  saveMyData([w EXCEPT !.am.myData = Obj(pushed)])

\* shareEcon(args): this.myData.econ = args
shareEcon(w, args) ==
    LET o == w.am.myData.o
    IN  [w EXCEPT !.am.myData = Obj([f \in DOMAIN o \cup {"econ"} |->
                                        IF f = "econ" THEN args ELSE o[f]])]

CallSetMyData ==
    /\ pc = "sync"
    /\ ev.userCalls < MaxCalls
    /\ \E data \in {EmptyObject, Obj([resource |-> Arr(<<"m">>)])} :
         \E w \in {setMyData(Begin(World, "setMyData"), data)} :
             /\ am' = w.am
             /\ RawMemory' = w.raw
             /\ ev' = [w.ev EXCEPT !.userCalls = ev.userCalls + 1]
    /\ UNCHANGED <<sp, ds, Game, pc, cipherVars>>

\* requestResource, requestDefense, requestAttack, sharePlayer, requestWork,
\* requestFunnel, shareRoom (args): addRequest with the type of the wrapper; an
\* array takes up to MaxRequests requests
CallAddRequest ==
    /\ pc = "sync"
    /\ ev.userCalls < MaxCalls
    /\ \E type \in {"resource", "defense", "attack", "player", "work", "funnel", "room"} :
         /\ type \in DOMAIN am.myData.o => Len(am.myData.o[type].a) < MaxRequests
         /\ \E w \in {addRequest(Begin(World, "addRequest"), type, "r")} :
              /\ am' = w.am
              /\ RawMemory' = w.raw
              /\ ev' = [w.ev EXCEPT !.userCalls = ev.userCalls + 1]
    /\ UNCHANGED <<sp, ds, Game, pc, cipherVars>>

CallShareEcon ==
    /\ pc = "sync"
    /\ ev.userCalls < MaxCalls
    /\ \E w \in {shareEcon(Begin(World, "shareEcon"), Obj([credits |-> Arr(<<"c">>)]))} :
         /\ am' = w.am
         /\ ev' = [w.ev EXCEPT !.userCalls = ev.userCalls + 1]
    /\ UNCHANGED <<sp, ds, RawMemory, Game, pc, cipherVars>>

CallSetLeaderRoom ==
    /\ pc = "sync"
    /\ ev.userCalls < MaxCalls
    /\ \E w \in {setLeaderRoom(Begin(World, "setLeaderRoom"), "W2N2")} :
         /\ ds' = w.ds
         /\ RawMemory' = w.raw
         /\ ev' = [w.ev EXCEPT !.userCalls = ev.userCalls + 1]
    /\ UNCHANGED <<sp, am, Game, pc, cipherVars>>

\* AllianceManager.setActiveSegments(segments); dataSync is set
CallSetActiveSegments ==
    /\ pc = "sync"
    /\ ev.userCalls < MaxCalls
    /\ \E segments \in {{}, {dataSegmentId}} :
         \E w \in {setActiveSegments(Begin(World, "setActiveSegments"), segments)} :
             /\ RawMemory' = w.raw
             /\ ev' = [w.ev EXCEPT !.userCalls = ev.userCalls + 1]
    /\ UNCHANGED <<sp, ds, am, Game, pc, cipherVars>>

\* Alliance.dataSync.clearKey()
CallClearKey ==
    /\ pc = "sync"
    /\ ev.userCalls < MaxCalls
    /\ \E w \in {clearKey(Begin(World, "clearKey"))} :
         /\ ds' = w.ds
         /\ RawMemory' = w.raw
         /\ ev' = [w.ev EXCEPT !.userCalls = ev.userCalls + 1]
    /\ UNCHANGED <<sp, am, Game, pc, cipherVars>>

\* terminal.send(...) of the user code, accepted by the host
CallSend ==
    /\ pc = "sync"
    /\ ev.userCalls < MaxCalls
    /\ \E n \in 1..Len(Game.terminals) :
         /\ Game.terminals[n].cooldown = 0
         /\ \E r \in {send(Begin(World, "send"), n, OK)} :
              /\ r.ret = OK
              /\ Game' = r.w.game
              /\ ev' = [r.w.ev EXCEPT !.userCalls = ev.userCalls + 1]
    /\ UNCHANGED <<sp, ds, am, RawMemory, pc, cipherVars>>

\* AllianceManager.sync(), the last call of the tick
CallSync ==
    /\ pc = "sync"
    /\ \E w \in {managerSync(Begin(World, "sync"), [n \in 1..Len(Game.terminals) |-> TRUE])} :
         /\ sp' = w.sp
         /\ ds' = w.ds
         /\ am' = w.am
         /\ RawMemory' = w.raw
         /\ Game' = w.game
         /\ ev' = w.ev
    /\ pc' = "host"
    /\ UNCHANGED cipherVars

\* the host between two ticks: the leader publishes its roster under KeyK2
CallsHostTick ==
    /\ pc = "host"
    /\ Game.time < StartTime + MaxCallTicks
    /\ RawMemory' = Settle(RawMemory,
           IF /\ RawMemory.activeForeignSegment.username = leaderPlayerName
              /\ RawMemory.activeForeignSegment.id = segmentId
           THEN Str(KeyK2, Json(LeaderData(TRUE, RosterAB, 0, "W1N1")))
           ELSE Str(KeyK2, Json(PeerFull)))
    /\ \E txs \in {Game.incomingTransactions}
                  \cup IF Game.incomingTransactions = <<>>
                       THEN {<<tx>> : tx \in CallsArrivals(Game.time)} ELSE {} :
         Game' = [time |-> Game.time + 1,
                  incomingTransactions |-> txs,
                  terminals |-> [i \in 1..Len(Game.terminals) |->
                                    NextTerminal(Game.terminals[i])]]
    /\ ev' = [ev EXCEPT !.op = "tick"]
    /\ pc' = "sync"
    /\ UNCHANGED <<sp, ds, am, cipherVars>>

CallsNext ==
    \/ CallSetMyData
    \/ CallAddRequest
    \/ CallShareEcon
    \/ CallSetLeaderRoom
    \/ CallSetActiveSegments
    \/ CallClearKey
    \/ CallSend
    \/ CallSync
    \/ CallsHostTick

SpecCalls == CallsInit /\ [][CallsNext]_vars
\* the longest message; the round count stops falling at 53 words
MaxLongWords == 54

\* one message of every length above MaxWords
LongMessages == {[i \in 1..n |-> <<i, n>>] : n \in (MaxWords + 1)..MaxLongWords}

LongKey == <<(<<1, 2>>), (<<65535, 65535>>), (<<43690, 21845>>), (<<4660, 22136>>)>>

CipherInit ==
    /\ \/ cMsg \in WordMessages /\ cKey \in KeyPool
       \/ cMsg \in LongMessages /\ cKey = LongKey
    /\ cV = <<>>
    /\ cSum = ZeroW
    /\ cQ = 0
    /\ cOut = <<>>
    /\ cBack = <<>>
    /\ cPc = "input"
    /\ cSums = <<>>
    /\ cDecSums = <<>>
    /\ IdleText
    /\ IdleProgram

CipherNext ==
    \/ encryptUint32Array
    \/ EncryptRound
    \/ EncryptReturn
    \/ decryptUint32Array
    \/ DecryptRound
    \/ DecryptReturn

SpecCipher == CipherInit /\ [][CipherNext]_vars

\* C10 (as stated): for every key and every word message of length >= 1,
\* single-word messages included, decrypting the encryption gives the message back.
C10_InverseAnyLength == cPc = "decrypted" => cBack = cMsg

\* C10 (amended): for every key and every word message of length >= 2,
\* decryptUint32Array(encryptUint32Array(m, k), k) = m word for word.
C10_InverseLen2 == (cPc = "decrypted" /\ Len(cMsg) >= 2) => cBack = cMsg

C10_Witness == cPc = "decrypted" /\ Len(cMsg) >= 2 /\ cBack = cMsg /\ cOut # cMsg


\* encryptUint32Array has computed its round count and run no round yet
RoundsSet == cPc = "enc" /\ cSums = <<>>

\* C13 (as stated): the round count is at least 17 for every message length
\* n >= 1, however long the message, and 68 for n = 1.
C13_AtLeast17 ==
    RoundsSet => /\ cQ >= 17
                 /\ Len(cMsg) = 1 => cQ = 68

\* C13 (amended): the round count is at least 16 for every message length
\* n >= 1: 68 for n = 1, at least 17 up to 52 words, exactly 16 from 53 words on.
C13_AtLeast16 ==
    RoundsSet => /\ cQ >= 16
                 /\ Len(cMsg) = 1 => cQ = 68
                 /\ Len(cMsg) <= 52 => cQ >= 17
                 /\ Len(cMsg) >= 53 => cQ = 16

C13_Witness == RoundsSet /\ Len(cMsg) >= 53 /\ cQ = 16

\* C14: for an n-word message encryption performs exactly floor(16 + 52/n)
\* rounds with the sums DELTA, 2*DELTA, ..., q*DELTA (mod 2^32), and decryption
\* performs the same number of rounds, visiting the same sums in reverse order
\* and none of them zero: it neither stops early nor runs on.
C14_RoundSymmetry ==
    cPc = "decrypted" =>
        LET q == Len(cSums)
        IN  /\ q = 16 + (52 \div Len(cMsg))
            /\ cSums[1] = DELTA
            /\ \A i \in 1..(q - 1) : cSums[i + 1] = AddW(cSums[i], DELTA)
            /\ Len(cDecSums) = q
            /\ \A i \in 1..q : cDecSums[i] = cSums[q + 1 - i] /\ cDecSums[i] # ZeroW
            /\ cSum = ZeroW

\* a run whose sums wrapped around 2^32: a later sum is below an earlier one
C14_Witness ==
    /\ cPc = "decrypted"
    /\ Len(cDecSums) = 16 + (52 \div Len(cMsg))
    /\ Len(cMsg) > 1
    /\ \E i \in 1..(Len(cSums) - 1) : cSums[i + 1][1] < cSums[i][1]

(***************************************************************************)
(* Text layer of crypt.js.  A string is the sequence of its UTF-16 code    *)
(* units, a hexadecimal string the sequence of its digits' values, and a   *)
(* Uint32Array a sequence of <<high, low>> words as in the cipher.         *)
(***************************************************************************)

RECURSIVE OrBits(_, _, _)
OrBits(a, b, n) ==
    IF n = 0 THEN 0
    ELSE (IF (a % 2) + (b % 2) > 0 THEN 1 ELSE 0) + 2 * OrBits(a \div 2, b \div 2, n - 1)

\* Number.parseInt of four hexadecimal digits of s from position j (1-indexed)
Hex4(s, j) == ((s[j] * 16 + s[j + 1]) * 16 + s[j + 2]) * 16 + s[j + 3]

\* hexStringToUint32Array(s): s.length >> 3 words of eight digits each
hexStringToUint32Array(s) ==
    [i \in 1..(Len(s) \div 8) |-> <<Hex4(s, 8 * (i - 1) + 1), Hex4(s, 8 * (i - 1) + 5)>>]

\* TypedArray.prototype.subarray(4)
subarray4(v) == IF Len(v) <= 4 THEN <<>> ELSE SubSeq(v, 5, Len(v))

\* String.prototype.codePointAt(i), i counted from 0; -1 stands for undefined,
\* which fails every >= test as undefined does
NoCodePoint == -1

codePointAt(s, i) ==
    IF i >= Len(s) THEN NoCodePoint
    ELSE IF /\ s[i + 1] >= 55296 /\ s[i + 1] <= 56319
            /\ i + 1 < Len(s)
            /\ s[i + 2] >= 56320 /\ s[i + 2] <= 57343
         THEN 65536 + (s[i + 1] - 55296) * 1024 + (s[i + 2] - 56320)
         ELSE s[i + 1]

\* String.fromCodePoint(c)
fromCodePoint(c) ==
    IF c < 65536 THEN <<c>>
    ELSE <<55296 + ((c - 65536) \div 1024), 56320 + ((c - 65536) % 1024)>>

\* lines 80-84 and 85-89: a half below 32 or in the surrogate range is moved
\* to a supplementary code point
SafeCodePoint(half) ==
    IF half < 32 THEN half + 67584
    ELSE IF half >= 55296 /\ half <= 57343 THEN half + 65536 - 55296
    ELSE half

\* lines 54-60 and 62-68: the code point is moved back
UnsafeCodePoint(c) ==
    IF c >= 67584 THEN c - 67584
    ELSE IF c >= 65536 THEN c + 55296 - 65536
    ELSE c

\* low | (high << 16) stored in a Uint32Array; undefined counts as 0
WordOfCodePoints(high, low) ==
    LET h == IF high = NoCodePoint THEN 0 ELSE high
        l == IF low = NoCodePoint THEN 0 ELSE low
    IN  <<OrBits(h % Half, (l \div Half) % Half, 16), l % Half>>

\* uint32ArrayToSafeString(data)
RECURSIVE uint32ArrayToSafeString(_)
uint32ArrayToSafeString(data) ==
    IF data = <<>> THEN <<>>
    ELSE fromCodePoint(SafeCodePoint(data[1][1]))
         \o fromCodePoint(SafeCodePoint(data[1][2]))
         \o uint32ArrayToSafeString(Tail(data))

\* the loop of safeStringToUint32Array from index i (counted from 0)
RECURSIVE SafeStringWords(_, _)
SafeStringWords(s, i) ==
    IF i >= Len(s) THEN <<>>
    ELSE LET high == codePointAt(s, i)
             i1 == IF high >= 65536 THEN i + 1 ELSE i
             low == codePointAt(s, i1 + 1)
             i2 == IF low >= 65536 THEN i1 + 1 ELSE i1
         IN  <<WordOfCodePoints(UnsafeCodePoint(high), UnsafeCodePoint(low))>>
             \o SafeStringWords(s, i2 + 2)

safeStringToUint32Array(s) == SafeStringWords(s, 0)

\* stringToUint32Array(s): an odd-length string is padded with one space
stringToUint32Array(s) ==
    LET t == IF Len(s) % 2 > 0 THEN Append(s, 32) ELSE s
    IN  [i \in 1..(Len(t) \div 2) |-> <<t[2 * i - 1], t[2 * i]>>]

\* uint32ArrayToString(data): the low half of the last word is dropped when it
\* is a space
RECURSIVE WordsToString(_)
WordsToString(data) ==
    IF data = <<>> THEN <<>>
    ELSE <<data[1][1], data[1][2]>> \o WordsToString(Tail(data))

uint32ArrayToString(data) ==
    IF Len(data) - 1 < 0 THEN <<>>
    ELSE LET last == data[Len(data)]
         IN  WordsToString(SubSeq(data, 1, Len(data) - 1))
             \o <<last[1]>>
             \o (IF last[2] # 32 THEN <<last[2]>> ELSE <<>>)

\* TypedArray.prototype.set with a source longer than the target
RangeError == [throws |-> "RangeError: offset is out of bounds"]

\* sign(s, k): a zeroed array of s.length + 4 words, k at 0 (v.set(k) throws when
\* k is longer than the array), then s at 4 over what k left there
sign(s, k) ==
    IF Len(k) > Len(s) + 4 THEN RangeError
    ELSE [i \in 1..(Len(s) + 4) |->
             IF i > 4 THEN s[i - 4]
             ELSE IF i <= Len(k) THEN k[i]
             ELSE ZeroW]

\* always accepts
checkSignAlways(s, k) == subarray4(s)

\* checkSign(s, k): a word of s that does not exist differs from every word of k
checkSign(s, k) ==
    IF \E i \in 1..Len(k) : i > Len(s) \/ k[i] # s[i] THEN <<>>
    ELSE subarray4(s)

\* s.charAt(0) !== '{' in readEncryptedSegment
FailsBraceTest(s) == s = <<>> \/ s[1] # 123

(***************************************************************************)
(* Text harness: a text and two keys are drawn from bounded sets; the text *)
(* is encrypted under the first key and the result decrypted under the     *)
(* second, the rounds of the cipher being the steps of the cipher harness. *)
(***************************************************************************)
MaxTextLen == 2

\* ' ', '{', a control unit, a lone high surrogate
TextAlphabet == {32, 123, 1, 55357}

Texts == UNION {SeqsOfLen(TextAlphabet, n) : n \in 0..MaxTextLen}

RECURSIVE Digits(_, _)
Digits(d, n) == IF n = 0 THEN <<>> ELSE <<d>> \o Digits(d, n - 1)

\* 64 hexadecimal digits, as delivered by a transfer: the first 32 are the
\* words the cipher uses, the last 32 the words of the tag
Hex64(c, t) == Digits(c, 32) \o Digits(t, 32)

\* 32 hexadecimal digits: four words
Hex32(c) == Digits(c, 32)

\* <<key of encrypt, key of decrypt>>: equal keys, keys that differ in the
\* tag words, in the cipher words, in both
KeyPairs == { <<Hex64(1, 10), Hex64(1, 10)>>, <<Hex64(1, 10), Hex64(1, 11)>>,
              <<Hex64(1, 10), Hex64(2, 10)>>, <<Hex64(1, 11), Hex64(2, 10)>>,
              <<Hex32(1), Hex32(1)>>, <<Hex32(1), Hex32(2)>> }

TextInit ==
    /\ tMsg \in Texts
    /\ \E kp \in KeyPairs : tEncKey = kp[1] /\ tDecKey = kp[2]
    /\ tSafe = <<>>
    /\ tBack = <<>>
    /\ tPc = "text"
    /\ cMsg = <<>>
    /\ cKey = <<>>
    /\ cV = <<>>
    /\ cSum = ZeroW
    /\ cQ = 0
    /\ cOut = <<>>
    /\ cBack = <<>>
    /\ cPc = "idle"
    /\ cSums = <<>>
    /\ cDecSums = <<>>
    /\ IdleProgram

\* encrypt(s, k), lines 143-145: the signed words are handed to the cipher
EncryptText ==
    /\ tPc = "text"
    /\ LET k2 == hexStringToUint32Array(tEncKey)
       IN  /\ cKey' = k2
           /\ cMsg' = sign(stringToUint32Array(tMsg), subarray4(k2))
    /\ cPc' = "input"
    /\ tPc' = "encrypting"
    /\ UNCHANGED <<cV, cSum, cQ, cOut, cBack, cSums, cDecSums>>
    /\ UNCHANGED <<tMsg, tEncKey, tDecKey, tSafe, tBack>>
    /\ UNCHANGED progVars

\* encrypt(s, k), line 146
EncryptTextReturn ==
    /\ tPc = "encrypting"
    /\ cPc = "encrypted"
    /\ tSafe' = uint32ArrayToSafeString(cOut)
    /\ tPc' = "encrypted"
    /\ UNCHANGED <<cMsg, cKey, cV, cSum, cQ, cOut, cBack, cPc, cSums, cDecSums>>
    /\ UNCHANGED <<tMsg, tEncKey, tDecKey, tBack>>
    /\ UNCHANGED progVars

\* decrypt(s, k), lines 150-151: the words of the safe string are handed to
\* the cipher with the words of the second key
DecryptText ==
    /\ tPc = "encrypted"
    /\ cKey' = hexStringToUint32Array(tDecKey)
    /\ cOut' = safeStringToUint32Array(tSafe)
    /\ tPc' = "decrypting"
    /\ UNCHANGED <<cMsg, cV, cSum, cQ, cBack, cPc, cSums, cDecSums>>
    /\ UNCHANGED <<tMsg, tEncKey, tDecKey, tSafe, tBack>>
    /\ UNCHANGED progVars

\* decrypt(s, k), line 151: decryptUint32Array is entered
DecryptTextWords ==
    /\ tPc = "decrypting"
    /\ decryptUint32Array

\* decrypt(s, k), lines 152-153
DecryptTextReturn ==
    /\ tPc = "decrypting"
    /\ cPc = "decrypted"
    /\ tBack' = uint32ArrayToString(checkSign(cBack, subarray4(cKey)))
    /\ tPc' = "decrypted"
    /\ UNCHANGED <<cMsg, cKey, cV, cSum, cQ, cOut, cBack, cPc, cSums, cDecSums>>
    /\ UNCHANGED <<tMsg, tEncKey, tDecKey, tSafe>>
    /\ UNCHANGED progVars

TextNext ==
    \/ EncryptText
    \/ encryptUint32Array
    \/ EncryptRound
    \/ EncryptReturn
    \/ EncryptTextReturn
    \/ DecryptText
    \/ DecryptTextWords
    \/ DecryptRound
    \/ DecryptReturn
    \/ DecryptTextReturn

SpecText == TextInit /\ [][TextNext]_vars

\* C11 (as stated): for every text and every key, decrypt(encrypt(M, K), K) = M.
C11_TextRoundTrip == (tPc = "decrypted" /\ tEncKey = tDecKey) => tBack = tMsg

\* the round trip loses exactly one thing: the final space of a text of even
\* length; every other text comes back unchanged
C11_RoundTripButFinalSpace ==
    (tPc = "decrypted" /\ tEncKey = tDecKey) =>
        IF tMsg # <<>> /\ Len(tMsg) % 2 = 0 /\ tMsg[Len(tMsg)] = 32
        THEN tBack = SubSeq(tMsg, 1, Len(tMsg) - 1)
        ELSE tBack = tMsg

\* an escaped half (control or surrogate value) occurred in a round trip
C11_EscapedHalfSeen ==
    /\ tPc = "decrypted"
    /\ tEncKey = tDecKey
    /\ tBack = tMsg
    /\ Len(tSafe) > 2 * Len(cOut)

\* what checkSign returned in decrypt, in a state where decrypt has returned
SignChecked == checkSign(cBack, subarray4(cKey))

\* C12 (as stated): for keys K1 # K2 of either format, 32 or 64 hexadecimal
\* digits, decrypting under K2 a text encrypted under K1 ends in checkSign
\* returning no payload, decrypt returning the empty string and
\* readEncryptedSegment's test for a decryption failure succeeding.
C12_WrongKeyRejected ==
    (tPc = "decrypted" /\ tEncKey # tDecKey) =>
        /\ SignChecked = <<>>
        /\ tBack = <<>>
        /\ FailsBraceTest(tBack)

\* C12 (amended): for 64-digit keys K1 # K2 the tag check rejects: checkSign
\* returns no payload, decrypt returns the empty string and the brace test
\* reports a decryption failure, also when K2 decrypts the words correctly
\* and differs from K1 in the tag words only.  For 32-digit keys there are no
\* tag words: checkSign accepts whatever was decrypted and decrypt returns
\* the text of those words.
C12_WrongKeyByFormat ==
    (tPc = "decrypted" /\ tEncKey # tDecKey) =>
        IF Len(tDecKey) = 64
        THEN /\ SignChecked = <<>>
             /\ tBack = <<>>
             /\ FailsBraceTest(tBack)
        ELSE /\ subarray4(cKey) = <<>>
             /\ SignChecked = subarray4(cBack)
             /\ tBack = uint32ArrayToString(subarray4(cBack))

\* a 64-digit key with the right cipher words and the wrong tag words decrypted
\* the words correctly and the text was rejected
C12_Witness ==
    /\ tPc = "decrypted"
    /\ tEncKey # tDecKey
    /\ Len(tDecKey) = 64
    /\ tMsg # <<>>
    /\ cBack = cMsg
    /\ tBack = <<>>

\* a 32-digit wrong key gave back a non-empty text that is not the message
C12_UntaggedGarbage ==
    /\ tPc = "decrypted"
    /\ tEncKey # tDecKey
    /\ Len(tDecKey) = 32
    /\ tBack # <<>>
    /\ tBack # tMsg

(***************************************************************************)
(* Properties                                                              *)
(***************************************************************************)
Polls == {"read", "readSegment", "readEncryptedSegment"}

Pending == {Undef, NEXT_TICK}

\* the host's foreign segment of this tick is the one the provider asks for
Settled ==
    /\ RawMemory.foreignSegment.username = sp.requestedPlayerName
    /\ RawMemory.foreignSegment.id = sp.requestedSegmentId

Range(s) == {s[i] : i \in 1..Len(s)}

\* C1: with k eligible peers and no failures, the peers of any k consecutive
\* completed peer polls are k different peers (each peer exactly once per k
\* polls), also when leader-roster polls interleave.
C1_RoundRobinFair ==
    (Len(am.syncDataAllies) > 0 /\ Len(ev.polls) = Len(am.syncDataAllies))
        => \A i, j \in 1..Len(ev.polls) : i # j => ev.polls[i] # ev.polls[j]

\* C2: with sync invoked every tick, a key record with an active key, a next
\* key and expiry T is promoted at tick T: once the sync of a tick t has run,
\* such a record is held only while t < T.
C2_PromotedAtExpiry ==
    (/\ pc = "host"
     /\ ds.loaded
     /\ ds.keyData.key # ""
     /\ ds.keyData.newKey # ""
     /\ ds.keyData.expire # 0)
        => Game.time < ds.keyData.expire

\* C3: a read, readSegment or readEncryptedSegment call returns content only
\* from the host's foreign segment whose owner and id are the pair requested
\* most recently; content delivered for a pair requested earlier is never
\* returned.
C3_OnlyLatestRequest ==
    (ev.op \in Polls /\ ev.from # <<"", 0>>)
        => ev.from = <<sp.requestedPlayerName, sp.requestedSegmentId>>

\* C3 witness: the host delivered content for the pair requested first, another
\* pair was requested since, and the poll returned nothing.
C3_Witness ==
    /\ ev.op \in Polls
    /\ ev.op # "readEncryptedSegment"
    /\ ~ev.retargeted
    /\ Truthy(RawMemory.foreignSegment.data)
    /\ ~Settled
    /\ ev.ret = Undef
    /\ ev.from = <<"", 0>>

\* C4 (as stated): a poll in the tick of the subscribe yields pending (undefined
\* or NEXT_TICK) and never data; after the settle point, with a value at the
\* pair, a read or readSegment yields exactly that value.
C4_PendingInSubscribeTick ==
    LET data == RawMemory.foreignSegment.data
    IN  /\ (ev.op \in Polls /\ ev.subscribed = Game.time)
               => (ev.ret \in Pending /\ ev.from = <<"", 0>>)
        /\ (/\ ev.op \in {"read", "readSegment"}
            /\ ~ev.retargeted
            /\ ev.subscribed < Game.time
            /\ Settled
            /\ Truthy(data))
               => ev.ret = IF ev.raw THEN data
                           ELSE IF JSONparses(data) THEN JSONparse(data)
                           ELSE ERR_JSON_PARSE_FAILED

\* C4 (amended): a read or readSegment in the tick of the subscribe yields
\* pending (undefined or NEXT_TICK) and no data, except when the host's foreign
\* segment of that tick is already that of the pair subscribed to and holds a
\* value (the pair was subscribed to in the tick before and again now): then, as in
\* every later tick in which the host has settled the pair with a value, a poll
\* that does not itself subscribe yields exactly that value (the text when raw,
\* the parsed object otherwise).
C4_TwoPhaseSettle ==
    LET data == RawMemory.foreignSegment.data
    IN  /\ (ev.op \in {"read", "readSegment"} /\ ev.subscribed = Game.time)
               => ((ev.ret \in Pending /\ ev.from = <<"", 0>>)
                      <=> (ev.retargeted \/ ~Settled \/ ~Truthy(data)))
        /\ (/\ ev.op \in {"read", "readSegment"}
            /\ ~ev.retargeted
            /\ Settled
            /\ Truthy(data))
               => ev.ret = IF ev.raw THEN data
                           ELSE IF JSONparses(data) THEN JSONparse(data)
                           ELSE ERR_JSON_PARSE_FAILED

\* C4 witness: the pair was subscribed to again in this tick,
\* the host's foreign segment of the tick is that of the pair, and readSegment
\* returned its value in the tick of the subscribe.
C4_ResubscribedWitness ==
    /\ ev.op = "readSegment"
    /\ ~ev.retargeted
    /\ ev.subscribed = Game.time
    /\ Settled
    /\ ev.raw
    /\ ev.ret = RawMemory.foreignSegment.data
    /\ ev.from = <<sp.requestedPlayerName, sp.requestedSegmentId>>

\* the pair was requested in the tick before, the host settled it with a
\* value, and readSegment returned the value.
C4_Witness ==
    /\ ev.op = "readSegment"
    /\ ~ev.retargeted
    /\ ev.subscribed = Game.time - 1
    /\ Settled
    /\ Truthy(RawMemory.foreignSegment.data)
    /\ ev.raw
    /\ ev.ret = RawMemory.foreignSegment.data

\* C5: a peer poll of syncAlliesData that ends malformed or decryption-failed,
\* or that cannot be made because no active key is held, leaves the cached
\* payload of that peer unchanged.
C5_FailureRetainsCache ==
    (/\ ev.op = "sync"
     /\ ev.rr = "done"
     /\ ev.peerSegment \in {ERR_DECRYPTION_FAILED, ERR_JSON_PARSE_FAILED, NoPoll})
        => am.alliesData[ev.peer] = ev.cachedBefore

\* C6: when the leader's segment fails to decrypt under the active key,
\* syncMember clears key, leaves newKey and leaderRoom as they were, saves the
\* key record to the key segment and reports NEXT_TICK.
C6_StaleKey ==
    (/\ ev.op = "sync"
     /\ ev.member = "poll"
     /\ ev.poll = ERR_DECRYPTION_FAILED
     /\ ~ev.useNewKey)
        => /\ ds.keyData.key = ""
           /\ ds.keyData.newKey = ev.keyDataBefore.newKey
           /\ ds.keyData.leaderRoom = ev.keyDataBefore.leaderRoom
           /\ RawMemory.segments[keySegmentId] = Str("", Json(ds.keyData))
           /\ ev.leader = NEXT_TICK

\* C6 witness: the active key was held with a leader room, and the leader's
\* segment did not decrypt.
C6_Witness ==
    /\ ev.op = "sync"
    /\ ev.member = "poll"
    /\ ev.poll = ERR_DECRYPTION_FAILED
    /\ ~ev.useNewKey
    /\ ev.keyDataBefore.key = KeyK1
    /\ ev.keyDataBefore.leaderRoom # ""
    /\ ds.keyData.key = ""

\* C7: when the leader's segment has settled and holds the empty string, the
\* poll is classified as empty (readEncryptedSegment yields {}) and the leader
\* step completes non-pending.
C7_EmptyIsNotPending ==
    (/\ ev.op = "sync"
     /\ ev.member = "poll"
     /\ RawMemory.foreignSegment.username = leaderPlayerName
     /\ RawMemory.foreignSegment.id = segmentId
     /\ RawMemory.foreignSegment.data = EmptyString)
        => (ev.poll = EmptyObject /\ ev.leader # NEXT_TICK)

\* the condition of syncMember's key-request branch on a key record
NeedsKey(kd, time) ==
    kd.key = "" \/ (kd.expire # 0 /\ time >= kd.expire - KeyRequestWindow)

\* C8 (as stated): whenever syncMember finds no usable key or is within 1000
\* ticks of expire, the step reports pending, the leader timer is not advanced
\* and the round robin does not run in that tick.
C8_AlwaysPending ==
    (ev.op = "sync" /\ ev.member = "requestKey")
        => (ev.leader = NEXT_TICK /\ ev.rr = "")

\* C8 (amended): syncMember takes the key-request branch exactly when no usable
\* key is held or the tick is within 1000 ticks of expire, and then does not
\* poll the leader.  The step reports pending, leaving the leader timer and
\* the round robin alone, exactly when no next key is held yet and a key
\* delivery was read from the transfer log, or the leader room is unknown, or
\* there is no owned terminal; otherwise it reports undefined, the leader timer
\* advances by the sync interval and the round robin runs in that tick.
C8_KeyRequestStep ==
    [][ (ev'.op = "sync" /\ ev'.member \in {"requestKey", "poll"})
          => LET kd == ev'.keyDataBefore
                 pending == /\ kd.newKey = ""
                            /\ \/ ev'.txRead
                               \/ kd.leaderRoom = ""
                               \/ Len(Game.terminals) = 0
             IN  /\ (ev'.member = "requestKey") <=> NeedsKey(kd, Game.time)
                 /\ (ev'.member = "requestKey") =>
                      /\ ev'.poll = NoPoll
                      /\ (ev'.leader = NEXT_TICK) <=> pending
                      /\ pending => (ds'.nextSyncTime = ds.nextSyncTime /\ ev'.rr = "")
                      /\ ~pending => /\ ev'.leader = Undef
                                     /\ ds'.nextSyncTime = Game.time + syncInterval
                                     /\ ev'.rr # "" ]_vars

\* C8 witness: no key is held, a transfer to the leader was made from an owned
\* terminal, the step reported undefined and the round robin ran.
C8_Witness ==
    /\ ev.op = "sync"
    /\ ev.member = "requestKey"
    /\ ev.keyDataBefore.key = ""
    /\ ev.sent = 1
    /\ ev.leader = Undef
    /\ ev.rr # ""
    /\ ds.nextSyncTime = Game.time + syncInterval

\* the leader's segment was polled in this tick and the poll gave a result other
\* than pending
LeaderPollResult ==
    /\ ev.member = "poll"
    /\ ev.poll # NEXT_TICK
    /\ Truthy(ev.poll)

\* C9 (as stated): within a tick the leader step (syncAllies) runs before the
\* round robin (syncAlliesData), the round robin runs only if a poll of the
\* leader's roster gave a result other than pending, and never in a tick whose
\* leader step reported pending.
C9_OnlyAfterLeaderPoll ==
    ev.op = "sync"
        => /\ ev.calls # <<>>
           /\ ev.calls[1] = "syncAllies"
           /\ "syncAlliesData" \in Range(ev.calls)
                 => (ev.calls = <<"syncAllies", "syncAlliesData">> /\ LeaderPollResult)
           /\ ev.leader = NEXT_TICK
                 => (ev.calls = <<"syncAllies">> /\ ev.rr = "")

\* C9 (amended): within a tick the leader step (syncAllies) runs before the
\* round robin (syncAlliesData), and the round robin runs exactly when the
\* leader step did not report pending: the leader's roster was polled with a
\* result other than pending (and other than a decryption failure under the
\* current key, which drops the key and reports pending), or the leader step
\* was skipped by its interval timer, or the key-request branch ended with
\* undefined (a next key is held, or the owned terminals were gone through).
\* It never runs in a tick whose leader step reported pending.
C9_LeaderBeforeRoundRobin ==
    ev.op = "sync"
        => /\ ev.calls # <<>>
           /\ ev.calls[1] = "syncAllies"
           /\ ev.calls \in {<<"syncAllies">>, <<"syncAllies", "syncAlliesData">>}
           /\ "syncAlliesData" \in Range(ev.calls) <=> ev.leader # NEXT_TICK
           /\ "syncAlliesData" \in Range(ev.calls) <=> ev.rr # ""
           /\ ev.leader # NEXT_TICK
                 <=> \/ /\ LeaderPollResult
                        /\ ~(ev.poll = ERR_DECRYPTION_FAILED /\ ~ev.useNewKey)
                     \/ ev.member = ""
                     \/ /\ ev.member = "requestKey"
                        /\ ~ev.txRead
                        /\ \/ ev.keyDataBefore.newKey # ""
                           \/ /\ ev.keyDataBefore.leaderRoom # ""
                              /\ Len(Game.terminals) > 0

\* C9: the leader step was skipped by its interval timer, no poll of the leader
\* was made, and the round robin ran after it in the same tick.
C9_NoPollWitness ==
    /\ ev.op = "sync"
    /\ ev.member = ""
    /\ ev.leader = Undef
    /\ ev.calls = <<"syncAllies", "syncAlliesData">>
    /\ ev.rr # ""

\* C9 witness: the leader poll returned a roster and the round robin ran after
\* it in the same tick.
C9_Witness ==
    /\ ev.op = "sync"
    /\ ev.member = "poll"
    /\ ev.leader.t = "object"
    /\ ev.calls = <<"syncAllies", "syncAlliesData">>
    /\ ev.rr = "pending"

(***************************************************************************)
(* Properties of the key request, the leader poll and the peer polls       *)
(***************************************************************************)

\* the sync of this tick has run
Synced == pc = "host" /\ ev.op = "sync"

\* the terminals that pass the tests of requestKey before send is called
EligibleTerminals ==
    {n \in 1..Len(Game.terminals) :
        Game.terminals[n].cooldown = 0 /\ Game.terminals[n].energy >= MinTerminalEnergy}

\* the key record syncMember started from allows a key request
RequestAllowed(kd) ==
    /\ kd.newKey = ""
    /\ \/ kd.key = ""
       \/ kd.expire # 0 /\ Game.time >= kd.expire - KeyRequestWindow

\* the active key of the record has reached its expire: updateExpiredKey
\* promotes the next key, or drops the key when none is held
PromotionDue(kd) == kd.key # "" /\ kd.expire # 0 /\ Game.time >= kd.expire

\* the transfer log of this tick holds no key delivery for readKeyFromTransactions
NoDelivery ==
    ScanTransactions(Game.incomingTransactions, 1, 0, Game.time) = 0

\* syncMember ran in this tick on a loaded key record (ev.keyDataBefore)
MemberRan == Synced /\ ev.member \in {"expired", "requestKey", "poll"}

\* syncMember ran on a key record that allows a request and whose key is not due
\* for promotion, with a leader room recorded and no key delivery in the log
RequestDue ==
    /\ MemberRan
    /\ RequestAllowed(ev.keyDataBefore)
    /\ ~PromotionDue(ev.keyDataBefore)
    /\ ev.keyDataBefore.leaderRoom # ""
    /\ NoDelivery

\* the terminals asked to send in this tick: the eligible ones up to the first
\* one whose send answered OK
AskedTerminals ==
    {n \in EligibleTerminals : ev.refused >= Cardinality({m \in EligibleTerminals : m < n})}

\* C15 (as stated): a transfer is sent only when no next key is held and
\* either no active key is held or the tick is within 1000 ticks of expire; and
\* in every such step with a leader room recorded and no key delivery found,
\* exactly one transfer is sent when a terminal with zero cooldown and at least
\* 10 energy exists, and none when there is no such terminal.
C15_RequestSent ==
    /\ (Synced /\ ev.sent > 0) =>
            ev.member = "requestKey" /\ RequestAllowed(ev.keyDataBefore)
    /\ (MemberRan /\ RequestAllowed(ev.keyDataBefore)
           /\ ev.keyDataBefore.leaderRoom # "" /\ NoDelivery)
          => /\ ev.sent = (IF EligibleTerminals # {} THEN 1 ELSE 0)
             /\ ~ev.thrown

\* C15 (amended): a transfer is sent only by a step of syncMember that starts
\* with no next key held and either no active key or the tick within 1000 ticks
\* of expire, with the active key not yet at its expire, a leader room recorded
\* and no key delivery in the log.  In every step of syncMember that starts so,
\* the terminals with zero cooldown and at least 10 energy are asked in their
\* order until one send answers OK; a terminal used earlier in the tick answers
\* ERR_TIRED, the host may answer another error, and both count as refused.
\* Exactly one transfer is sent when a send is accepted and none when no
\* terminal is eligible or every eligible one refused; no terminal after the
\* accepting one is asked, and the step raises no error.  A step that finds the
\* active key at its expire promotes or drops it and sends nothing.
C15_RequestSentIfAccepted ==
    /\ (Synced /\ ev.sent > 0) =>
            /\ ev.member = "requestKey"
            /\ RequestDue
    /\ (MemberRan /\ PromotionDue(ev.keyDataBefore)) =>
            ev.member = "expired" /\ ev.sent = 0 /\ ev.refused = 0
    /\ RequestDue =>
            /\ ev.member = "requestKey"
            /\ ~ev.txRead
            /\ ~ev.thrown
            /\ ev.sent \in {0, 1}
            /\ ev.sent = 0 <=> ev.refused = Cardinality(EligibleTerminals)
            /\ ev.sent = 1 =>
                   \E n \in EligibleTerminals :
                       /\ Game.terminals[n].isUsed
                       /\ ev.refused = Cardinality({m \in EligibleTerminals : m < n})
            /\ ev.sent + ev.refused = Cardinality(AskedTerminals)
            /\ ev.leader = IF Len(Game.terminals) = 0 THEN NEXT_TICK ELSE Undef

\* the first eligible terminal was used by the user code earlier in the tick and
\* refused, and the second one sent the request
C15_Witness ==
    /\ RequestDue
    /\ Cardinality(EligibleTerminals) = 2
    /\ ev.refused = 1
    /\ ev.sent = 1
    /\ \A n \in EligibleTerminals : Game.terminals[n].isUsed

\* a request was sent inside the rotation window while the active key is held,
\* by the first of two eligible terminals, and the second was not asked
C15_FirstAccepts ==
    /\ RequestDue
    /\ ev.keyDataBefore.key # ""
    /\ Cardinality(EligibleTerminals) = 2
    /\ ev.sent = 1
    /\ ev.refused = 0
    /\ \E n \in EligibleTerminals : ~Game.terminals[n].isUsed

\* the active key reached its expire with no next key held: it is dropped and
\* no terminal is asked
C15_ExpiryTick ==
    /\ MemberRan
    /\ PromotionDue(ev.keyDataBefore)
    /\ RequestAllowed(ev.keyDataBefore)
    /\ ev.keyDataBefore.leaderRoom # ""
    /\ EligibleTerminals # {}
    /\ ev.sent = 0

\* an eligible terminal refused and nothing was sent
C15_Refused == RequestDue /\ EligibleTerminals # {} /\ ev.sent = 0 /\ ev.refused > 0

\* the leader poll of this tick was skipped as an update: its text did not
\* parse, or it did not decrypt under the next key
UpdateSkipped(e) ==
    /\ e.op = "sync"
    /\ e.member = "poll"
    /\ \/ e.poll = ERR_JSON_PARSE_FAILED
       \/ e.poll = ERR_DECRYPTION_FAILED /\ e.useNewKey

\* C16: when the leader poll is malformed, or fails decryption under the next
\* key, syncMember reports undefined (non-pending, no data), and the key record
\* (held and saved), the roster, the list of eligible peers and the cursor the
\* round robin starts from are what they were before the step.
C16_SkippedChangesNothing ==
    [][ UpdateSkipped(ev') =>
            /\ ev'.leader = Undef
            /\ ds'.keyData = ev'.keyDataBefore
            /\ ds.loaded => ds'.keyData = ds.keyData
            /\ RawMemory'.segments[keySegmentId] = RawMemory.segments[keySegmentId]
            /\ am'.allies = am.allies
            /\ am'.syncDataAllies = am.syncDataAllies
            /\ ev'.cursorBefore = am.syncDataIndex
            /\ ev'.cacheBefore = am.alliesData ]_vars

\* a malformed roster was polled while a key, a roster and eligible peers are held
C16_Witness ==
    /\ Synced
    /\ UpdateSkipped(ev)
    /\ ev.leader = Undef
    /\ ds.keyData.key # ""
    /\ Len(am.syncDataAllies) > 1
    /\ ev.cacheBefore # <<>>

\* C17: writeMyData leaves the public data segment as it is when no active key
\* is held; with an active key it writes the empty string when no field of the
\* outgoing record is populated, and otherwise a text that is not the plain
\* serialization and that decrypts under the active key to the serialization
\* of the outgoing record.
C17_PublishOwnData ==
    [][ ev'.op = "setMyData" =>
            LET key == ds.keyData.key
                data == am'.myData
                blob == RawMemory'.segments[dataSegmentId]
            IN  IF key = "" THEN blob = RawMemory.segments[dataSegmentId]
                ELSE IF \A f \in DOMAIN data.o : data.o[f] \in {Undef, EmptyString}
                THEN blob = EmptyString
                ELSE /\ blob # JSONstringify(data)
                     /\ decrypt(blob, key) = JSONstringify(data)
                     /\ \A k \in {KeyK1, KeyK2} \ {key} : decrypt(blob, k) = EmptyString ]_vars

\* a record with a populated and an unpopulated field was published under the
\* active key over an earlier blob
C17_Witness ==
    /\ ev.op = "setMyData"
    /\ ds.keyData.key = KeyK2
    /\ am.myData = Obj([resource |-> Arr("n"), attack |-> Undef])
    /\ RawMemory.saved[dataSegmentId] # EmptyString
    /\ decrypt(RawMemory.segments[dataSegmentId], KeyK2) =
           Str("", Json([resource |-> Arr("n")]))

\* without a key the blob written earlier in the tick stays
C17_NoKeyWitness ==
    /\ ev.op = "setMyData"
    /\ ds.loaded
    /\ ~ev.thrown
    /\ ds.keyData.key = ""
    /\ am.myData # MyData
    /\ RawMemory.segments[dataSegmentId] = Undef

\* v[f], undefined when the object has no such field
Field(v, f) == IF f \in DOMAIN v.o THEN v.o[f] ELSE Undef

\* the round robin of this tick completed a poll that returned a payload
PeerPollSucceeded ==
    /\ Synced
    /\ ev.rr = "done"
    /\ Truthy(ev.peerData)
    /\ ev.peerData.t = "object"

\* the rank the roster gives to a player, "" when it gives none
RankOf(roster, p) ==
    IF \E i \in 1..Len(roster) : roster[i].name = p
    THEN (CHOOSE a \in Range(roster) : a.name = p).rank
    ELSE ""

\* C18: when a peer-data poll succeeds for a peer of rank Member, the cached
\* value has no attack and no player and every other field of the decoded
\* payload unchanged; for a peer of rank Council the decoded payload is cached
\* with all fields unchanged.
C18_PermissionFilter ==
    PeerPollSucceeded =>
        LET rank == RankOf(am.allies, ev.peer)
            cached == am.alliesData[ev.peer]
            fields == DOMAIN ev.peerData.o \cup DOMAIN cached.o
        IN  /\ rank = MEMBER =>
                   /\ Field(cached, "attack") = Undef
                   /\ Field(cached, "player") = Undef
                   /\ \A f \in fields \ {"attack", "player"} :
                          Field(cached, f) = Field(ev.peerData, f)
            /\ rank = COUNCIL => cached = ev.peerData

\* a Member published resource, attack and player; only resource was cached
C18_Witness ==
    /\ PeerPollSucceeded
    /\ RankOf(am.allies, ev.peer) = MEMBER
    /\ Field(ev.peerData, "attack") # Undef
    /\ Field(ev.peerData, "player") # Undef
    /\ Field(am.alliesData[ev.peer], "resource") = Arr("r")
    /\ Field(am.alliesData[ev.peer], "attack") = Undef

\* a Council peer's payload was cached whole
C18_CouncilWitness ==
    /\ PeerPollSucceeded
    /\ RankOf(am.allies, ev.peer) = COUNCIL
    /\ am.alliesData[ev.peer] = Obj(PeerFull)

\* C19: in syncAlliesData a pending poll changes neither the cursor, nor
\* nextDataSync, nor the cache; a non-pending outcome moves the cursor on by
\* one, to 0 from the last eligible peer; and nextDataSync is set to the tick
\* plus the interval only when the poll returned a payload or the cursor
\* came back to 0, and then always.
C19_CursorAndTimer ==
    /\ (Synced /\ ev.rr = "pending") =>
            /\ am.syncDataIndex = ev.cursorBefore
            /\ am.nextDataSync = ev.nextBefore
            /\ am.alliesData = ev.cacheBefore
    /\ (Synced /\ ev.rr = "done") =>
            /\ am.syncDataIndex = (IF ev.cursorBefore + 1 >= Len(am.syncDataAllies)
                                   THEN 0 ELSE ev.cursorBefore + 1)
            /\ IF ev.peerData # Undef \/ am.syncDataIndex = 0
               THEN am.nextDataSync = Game.time + interval
               ELSE am.nextDataSync = ev.nextBefore

\* a poll without a payload moved the cursor on and left the timer alone
C19_Witness ==
    /\ Synced
    /\ ev.rr = "done"
    /\ ev.peerData = Undef
    /\ am.syncDataIndex = ev.cursorBefore + 1
    /\ am.nextDataSync = ev.nextBefore
    /\ am.nextDataSync < Game.time

\* the cursor came back to 0 on a poll without a payload and the timer was set
C19_WrapWitness ==
    /\ Synced
    /\ ev.rr = "done"
    /\ ev.peerData = Undef
    /\ ev.cursorBefore > 0
    /\ am.syncDataIndex = 0
    /\ am.nextDataSync = Game.time + interval

\* a pending poll with a cursor and a cache to keep
C19_PendingWitness ==
    /\ Synced
    /\ ev.rr = "pending"
    /\ ev.cursorBefore > 0
    /\ ev.cacheBefore # <<>>

\* the leader poll of this tick returned a roster
RosterReturned ==
    /\ Synced
    /\ Truthy(ev.leader)
    /\ ev.leader.t = "object"
    /\ ev.leader.o.hasAllies

\* C20: after every leader poll that returns a roster, the cached roster is
\* the received one, the eligible peers are exactly the roster's peers other
\* than the local player whose rank is Council or Member, each once, the
\* cursor the round robin starts from is 0, and the cache the round robin
\* starts from holds no payload for a peer that is Associate, Inactive or not
\* in the roster.
C20_RosterReplaced ==
    RosterReturned =>
        LET roster == ev.leader.o.allies
        IN  /\ am.allies = roster
            /\ Range(am.syncDataAllies) =
                   {a.name : a \in {b \in Range(roster) :
                                       b.name # myUserName /\ b.rank \in {COUNCIL, MEMBER}}}
            /\ Len(am.syncDataAllies) = Cardinality(Range(am.syncDataAllies))
            /\ ev.cursorBefore = 0
            /\ \A p \in DOMAIN ev.cacheBefore :
                   RankOf(roster, p) \notin {COUNCIL, MEMBER} => ev.cacheBefore[p] = Undef

\* a roster that demotes a peer to Associate arrived while the cache held the
\* peer's payload, and the payload was dropped
C20_Witness ==
    /\ RosterReturned
    /\ ev.leader.o.allies = RosterA
    /\ "a" \in DOMAIN ev.cacheBefore
    /\ ev.cacheBefore["a"] = Undef
    /\ ev.cacheBefore["b"] # Undef
    /\ am.syncDataAllies = <<leaderPlayerName, "b">>

(***************************************************************************)
(* The own public data segment and the active key.                         *)
(***************************************************************************)
\* the own public data segment as the host holds it: what was written in this
\* tick, or else what was saved
OwnBlob ==
    IF RawMemory.segments[dataSegmentId] # Undef
    THEN RawMemory.segments[dataSegmentId]
    ELSE RawMemory.saved[dataSegmentId]

ActiveKeyHeld == ds.loaded /\ ds.keyData.key # ""

\* C23: in every reachable state in which an active key is held and the own
\* public data segment is not empty, that segment decrypts under the active key.
C23_BlobMatchesKey ==
    (ActiveKeyHeld /\ OwnBlob # EmptyString) =>
        decrypt(OwnBlob, ds.keyData.key) # EmptyString

\* C24: no call of setMyData, addRequest, setLeaderRoom or sync raises an
\* exception, whether the key record is loaded or not and whatever the transfer
\* log holds.
C24_NeverRaises == ~ev.thrown
====
